---- MODULE Spec2Model ----
(***************************************************************************)
(* Real-Time Negotiation Telemetry Engine.                                 *)
(*                                                                         *)
(* Spec      : the voice link hook (useVoiceStreamProcessor): connect,     *)
(*             session callbacks, retry timers, sever, capture gating.     *)
(* StoreSpec : the zustand store (useAppStore) driven through its API.     *)
(* AppSpec   : the dialogue handlers of App.tsx over the store.            *)
(***************************************************************************)
EXTENDS Integers, Sequences, FiniteSets, Bags, TLC

(* ---- program constants ------------------------------------------------ *)
MAX_RETRY_ATTEMPTS == 3
WINDOW_TAIL == 19
NumScenarios == 3

(* ---- bounds of the model ---------------------------------------------- *)
MaxSessions == 2
MaxTimers == 2
MaxPendingMedia == 1
MaxRetryState == 4
MaxClosesPending == 3
MaxClock == 2
MaxAppends == 22
MaxLog == 4
MaxPending == 2
MaxPlayClock == 2
MaxPendingDecodes == 2
MaxScheduled == 3
MaxDuration == 2
MaxTranscripts == 1
MaxSimCalls == 2
MaxThoughtCalls == 2
MaxStringLen == 3
MaxHesitations == 3
MaxSeconds == 5
MaxBlockLen == 3
MaxProcessCalls == 3
\* this.bufferSize, 4096 in the source, scaled down
bufferSize == 2

VARIABLES
    \* ---- useVoiceStreamProcessor: props
    apiKey,                 \* BOOLEAN: the apiKey prop is a non-empty string
    isAcousticCaptureActive,\* store flag handed to the hook as a prop
    \* ---- useVoiceStreamProcessor: React state
    isConnectionActive,
    connectionError,
    retryAttempt,
    \* ---- useVoiceStreamProcessor: refs
    sessionRef,
    retryTimeoutRef,
    inputAudioContextRef,
    outputAudioContextRef,
    streamRef,
    \* ---- environment of the hook
    sessions,               \* bag of the remote sessions that are connecting or open
    closesPending,          \* failed sessions whose onclose is still to come
    orphanTimers,           \* bag of pending retry timers no longer in retryTimeoutRef
    pendingMedia,           \* bag of initiateNeuralLink calls suspended in getUserMedia
    orphanProcessors,       \* script processors on the live context whose session ended
    \* ---- observations (history variables, read by no action)
    lastBlock,              \* what the last onaudioprocess did
    explicitlySevered,      \* severNeuralLink ran, no explicit initiate since
    \* ---- useAppStore
    entropyMetrics,
    transmissionVectors,
    cognitiveState,
    activeScenario,
    currentSpectralFlux,
    viewMode,
    analysisReport,
    selectedVoice,
    networkLatency,
    \* ---- App.tsx environment
    now,                    \* Date.now()
    pendingResponses,       \* offline timers and remote calls in flight
    appendedMetrics,        \* history: metrics appended since the last clear
    loggedVectors,          \* history: vectors appended since the last clear
    \* ---- playback (useVoiceStreamProcessor onmessage)
    outputClock,            \* outputAudioContextRef.current.currentTime
    nextStartTimeRef,       \* the playback cursor
    pendingDecodes,         \* bag: durations of the buffers whose decode is awaited
    scheduled,              \* history: the source.start calls, in order
    \* ---- ScenarioInjectionModule
    scenarioRegistry,       \* this.scenarioRegistry: references into SCENARIO_DB
    simLog,                 \* history: the processOfflineSimulation calls, in order
    \* ---- GeminiDeepThinkService.executeDeepThought and POST /api/negotiate
    thought,                \* the executeDeepThought call in progress
    thoughtLog,             \* history: the settled executeDeepThought calls
    \* ---- utils/AlgorithmicCore.ts: the pure functions
    coreInput,              \* the arguments the functions are applied to
    coreOutput,             \* the values returned so far, in call order
    \* ---- AudioProcessor (public/audio-processor.worklet.js)
    buffer,                 \* this.buffer
    bufferIndex,            \* this.bufferIndex
    portMessages,           \* the messages posted on this.port, in order
    inputSamples            \* history: the samples of the blocks processed, in order

linkVars == <<apiKey, isAcousticCaptureActive, isConnectionActive, connectionError,
              retryAttempt, sessionRef, retryTimeoutRef, inputAudioContextRef,
              outputAudioContextRef, streamRef, sessions, closesPending, orphanTimers,
              pendingMedia, orphanProcessors, lastBlock, explicitlySevered>>

storeVars == <<entropyMetrics, transmissionVectors, cognitiveState, activeScenario,
               currentSpectralFlux, viewMode, analysisReport, selectedVoice,
               networkLatency>>

appVars == <<now, pendingResponses, appendedMetrics, loggedVectors>>

\* The variables of the other components, which the link, the store and the
\* dialogue handlers leave alone.
playbackVars == <<nextStartTimeRef, pendingDecodes, scheduled>>

simVars == <<scenarioRegistry, simLog>>

thinkVars == <<thought, thoughtLog>>
coreVars == <<coreInput, coreOutput>>
workletVars == <<buffer, bufferIndex, portMessages, inputSamples>>
auxVars == <<simVars, thinkVars, coreVars, workletVars>>

otherVars == <<playbackVars, auxVars>>

vars == <<linkVars, storeVars, appVars, outputClock, otherVars>>

(* ======================================================================= *)
(* Voice link: src/hooks/useVoiceStreamProcessor.ts                        *)
(* ======================================================================= *)
NoError == [kind |-> "null", delayMs |-> 0]
ApiKeyMissing == [kind |-> "CRITICAL: API_KEY_MISSING", delayMs |-> 0]
InitializationFailure == [kind |-> "INITIALIZATION_FAILURE", delayMs |-> 0]
CircuitBreakerOpen == [kind |-> "CIRCUIT_BREAKER_OPEN", delayMs |-> 0]
Retrying(delay) == [kind |-> "RETRYING_IN", delayMs |-> delay]

\* The closure of one render's initiateNeuralLink: the retryAttempt and the
\* isAcousticCaptureActive it captured.  chain is a history field: the number
\* of failed attempts that precede this one in its retry chain (0 for an
\* attempt that no retry timer started), counted up to MAX_RETRY_ATTEMPTS.
Closure(r, mic, ch) == [capRetry |-> r, capMic |-> mic, chain |-> ch]

\* A remote session with the closure its callbacks captured.
\* wired: onopen installed a script processor for it on the live context.
\* severed is a history field: severNeuralLink ran after the session was
\* requested.
NewSession(c) == [status |-> "connecting", capRetry |-> c.capRetry, capMic |-> c.capMic,
                  chain |-> c.chain, wired |-> FALSE, severed |-> FALSE]

NoTimer == [pending |-> FALSE, delayMs |-> 0, capRetry |-> 0, capMic |-> FALSE,
            chain |-> 0]
NoBlock == [valid |-> FALSE, sessionOpen |-> FALSE, amplitude |-> FALSE, sent |-> FALSE,
            flag |-> FALSE]

One(x) == SetToBag({x})

LiveSessions == BagCardinality(sessions)
PendingTimers == BagCardinality(orphanTimers) + (IF retryTimeoutRef.pending THEN 1 ELSE 0)
NoTimerPending == PendingTimers = 0
CountStatus(st) ==
    BagCardinality([s \in {x \in BagToSet(sessions) : x.status = st} |-> sessions[s]])

\* backoffDelay = Math.pow(2, retryAttempt) * 1000
BackoffDelay(r) == (2 ^ r) * 1000

\* ai.live.connect({... callbacks ...}); sessionRef.current = sessionPromise
RequestSession(c) ==
    /\ LiveSessions < MaxSessions
    /\ sessions' = sessions (+) One(NewSession(c))
    /\ sessionRef' = TRUE

\* if (!outputAudioContextRef.current) outputAudioContextRef.current = new
\* AudioContext(...): the currentTime of a new context starts at 0.
NewContextClock(ctx, clock) == IF ctx THEN clock ELSE 0

\* initiateNeuralLink up to its first suspension, run with closure c.
\* throws: new GoogleGenAI / new AudioContext / ai.live.connect throws.
InitiateNeuralLink(c, throws) ==
    IF ~apiKey THEN
        /\ connectionError' = ApiKeyMissing
        /\ UNCHANGED <<isConnectionActive, sessionRef, retryTimeoutRef,
                       inputAudioContextRef, outputAudioContextRef, streamRef,
                       sessions, pendingMedia, outputClock>>
    ELSE
        /\ retryTimeoutRef' = NoTimer
        /\ IF throws THEN
               /\ connectionError' = InitializationFailure
               /\ isConnectionActive' = FALSE
               /\ UNCHANGED <<sessionRef, inputAudioContextRef, outputAudioContextRef,
                              streamRef, sessions, pendingMedia, outputClock>>
           ELSE
               /\ inputAudioContextRef' = TRUE
               /\ outputAudioContextRef' = TRUE
               /\ outputClock' = NewContextClock(outputAudioContextRef, outputClock)
               /\ IF ~streamRef THEN
                      /\ BagCardinality(pendingMedia) < MaxPendingMedia
                      /\ pendingMedia' = pendingMedia (+) One(c)
                      /\ UNCHANGED <<isConnectionActive, connectionError, sessionRef,
                                     streamRef, sessions>>
                  ELSE
                      /\ RequestSession(c)
                      /\ UNCHANGED <<isConnectionActive, connectionError, streamRef,
                                     pendingMedia>>

\* The connect button / a direct call: the closure of the current render.
ManualInitiate ==
    \E throws \in BOOLEAN :
        /\ InitiateNeuralLink(Closure(retryAttempt, isAcousticCaptureActive, 0), throws)
        /\ explicitlySevered' = FALSE
        /\ UNCHANGED <<apiKey, isAcousticCaptureActive, retryAttempt, orphanTimers,
                       closesPending, orphanProcessors, lastBlock>>
        /\ UNCHANGED <<storeVars, appVars, otherVars>>

\* getUserMedia resolves: streamRef.current = stream, then the connect request.
MediaResolve(c) ==
    /\ BagIn(c, pendingMedia)
    /\ streamRef' = TRUE
    /\ pendingMedia' = pendingMedia (-) One(c)
    /\ RequestSession(c)
    /\ UNCHANGED <<apiKey, isAcousticCaptureActive, isConnectionActive,
                   connectionError, retryAttempt, retryTimeoutRef,
                   inputAudioContextRef, outputAudioContextRef, orphanTimers,
                   closesPending, orphanProcessors, lastBlock, explicitlySevered>>
    /\ UNCHANGED <<storeVars, appVars, outputClock, otherVars>>

\* Mutant of MediaReject: the catch block schedules a retry as onerror does.
MediaReject_Retry(c) ==
    /\ BagIn(c, pendingMedia)
    /\ ~retryTimeoutRef.pending
    /\ pendingMedia' = pendingMedia (-) One(c)
    /\ connectionError' = [kind |-> "INITIALIZATION_FAILURE", delayMs |-> 0]
    /\ isConnectionActive' = FALSE
    /\ retryTimeoutRef' = [pending |-> TRUE, delayMs |-> 1000, capRetry |-> c.capRetry,
                           capMic |-> c.capMic, chain |-> c.chain]
    /\ UNCHANGED <<apiKey, isAcousticCaptureActive, retryAttempt, sessionRef,
                   inputAudioContextRef, outputAudioContextRef,
                   streamRef, sessions, orphanTimers, closesPending, orphanProcessors,
                   lastBlock, explicitlySevered>>
    /\ UNCHANGED <<storeVars, appVars, outputClock, otherVars>>

\* getUserMedia rejects: the catch block.
MediaReject(c) ==
    /\ BagIn(c, pendingMedia)
    /\ pendingMedia' = pendingMedia (-) One(c)
    /\ connectionError' = InitializationFailure
    /\ isConnectionActive' = FALSE
    /\ UNCHANGED <<apiKey, isAcousticCaptureActive, retryAttempt, sessionRef,
                   retryTimeoutRef, inputAudioContextRef, outputAudioContextRef,
                   streamRef, sessions, orphanTimers, closesPending, orphanProcessors,
                   lastBlock, explicitlySevered>>
    /\ UNCHANGED <<storeVars, appVars, outputClock, otherVars>>

\* callbacks.onopen of session s
OnOpen(s) ==
    /\ BagIn(s, sessions)
    /\ s.status = "connecting"
    /\ sessions' = (sessions (-) One(s)) (+)
                   One([s EXCEPT !.status = "open", !.chain = 0,
                                 !.wired = inputAudioContextRef /\ streamRef])
    /\ isConnectionActive' = TRUE
    /\ connectionError' = NoError
    /\ retryAttempt' = 0
    /\ UNCHANGED <<apiKey, isAcousticCaptureActive, sessionRef, retryTimeoutRef,
                   inputAudioContextRef, outputAudioContextRef, streamRef, orphanTimers,
                   closesPending, pendingMedia, orphanProcessors, lastBlock,
                   explicitlySevered>>
    /\ UNCHANGED <<storeVars, appVars, outputClock, otherVars>>

\* The retry timer onerror schedules for a session with closure fields of s.
RetryTimer(s) == [pending |-> TRUE, delayMs |-> BackoffDelay(s.capRetry),
                  capRetry |-> s.capRetry, capMic |-> s.capMic,
                  chain |-> IF s.chain < MAX_RETRY_ATTEMPTS THEN s.chain + 1
                            ELSE MAX_RETRY_ATTEMPTS]

\* if (retryAttempt < CircuitBreakerThresholds.MAX_RETRY_ATTEMPTS)
AttemptsRemain(r) == r < MAX_RETRY_ATTEMPTS

\* callbacks.onerror of session s.  The failed session leaves the table; its
\* onclose is still to come.  A timer that was in retryTimeoutRef and is
\* overwritten stays pending, out of reach of clearTimeout.
OnError(s) ==
    /\ BagIn(s, sessions)
    /\ closesPending < MaxClosesPending
    /\ sessions' = sessions (-) One(s)
    /\ closesPending' = closesPending + 1
    /\ orphanProcessors' = IF s.wired THEN orphanProcessors \cup {s.capMic}
                           ELSE orphanProcessors
    /\ isConnectionActive' = FALSE
    /\ IF AttemptsRemain(s.capRetry) THEN
           /\ PendingTimers < MaxTimers
           /\ connectionError' = Retrying(BackoffDelay(s.capRetry))
           /\ orphanTimers' = IF retryTimeoutRef.pending
                              THEN orphanTimers (+) One(retryTimeoutRef)
                              ELSE orphanTimers
           /\ retryTimeoutRef' = RetryTimer(s)
       ELSE
           /\ connectionError' = CircuitBreakerOpen
           /\ UNCHANGED <<orphanTimers, retryTimeoutRef>>
    /\ UNCHANGED <<apiKey, isAcousticCaptureActive, retryAttempt, sessionRef,
                   inputAudioContextRef, outputAudioContextRef, streamRef, pendingMedia,
                   lastBlock, explicitlySevered>>
    /\ UNCHANGED <<storeVars, appVars, outputClock, otherVars>>

\* callbacks.onclose of an open session s (the remote end closes)
OnClose(s) ==
    /\ BagIn(s, sessions)
    /\ s.status = "open"
    /\ sessions' = sessions (-) One(s)
    /\ orphanProcessors' = IF s.wired THEN orphanProcessors \cup {s.capMic}
                           ELSE orphanProcessors
    /\ isConnectionActive' = FALSE
    /\ UNCHANGED <<apiKey, isAcousticCaptureActive, connectionError, retryAttempt,
                   sessionRef, retryTimeoutRef, inputAudioContextRef,
                   outputAudioContextRef, streamRef, orphanTimers, closesPending,
                   pendingMedia, lastBlock, explicitlySevered>>
    /\ UNCHANGED <<storeVars, appVars, outputClock, otherVars>>

\* callbacks.onclose of a session that has reported an error
OnCloseAfterError ==
    /\ closesPending > 0
    /\ closesPending' = closesPending - 1
    /\ isConnectionActive' = FALSE
    /\ UNCHANGED <<apiKey, isAcousticCaptureActive, connectionError, retryAttempt,
                   sessionRef, retryTimeoutRef, inputAudioContextRef,
                   outputAudioContextRef, streamRef, sessions, orphanTimers,
                   pendingMedia, orphanProcessors, lastBlock, explicitlySevered>>
    /\ UNCHANGED <<storeVars, appVars, outputClock, otherVars>>

\* The body of the setTimeout callback of timer t:
\* setRetryAttempt(prev => prev + 1); initiateNeuralLink() -- the
\* initiateNeuralLink the callback closed over.
RetryCallback(t) ==
    /\ retryAttempt < MaxRetryState
    /\ retryAttempt' = retryAttempt + 1
    /\ \E throws \in BOOLEAN :
        InitiateNeuralLink(Closure(t.capRetry, t.capMic, t.chain), throws)
    /\ UNCHANGED <<apiKey, isAcousticCaptureActive, closesPending, orphanProcessors,
                   lastBlock, explicitlySevered>>
    /\ UNCHANGED <<storeVars, appVars, otherVars>>

\* The timer held in retryTimeoutRef fires.  (A timer exists only when apiKey
\* is set, and then initiateNeuralLink empties retryTimeoutRef.)
TimerFire ==
    /\ retryTimeoutRef.pending
    /\ RetryCallback(retryTimeoutRef)
    /\ UNCHANGED orphanTimers

\* A timer that is no longer in retryTimeoutRef fires.
OrphanTimerFire(t) ==
    /\ BagIn(t, orphanTimers)
    /\ orphanTimers' = orphanTimers (-) One(t)
    /\ RetryCallback(t)

SeverEffects ==
    /\ retryTimeoutRef' = NoTimer
    /\ retryAttempt' = 0
    /\ streamRef' = FALSE
    /\ inputAudioContextRef' = FALSE
    /\ outputAudioContextRef' = FALSE
    /\ isConnectionActive' = FALSE
    /\ connectionError' = NoError
    /\ orphanProcessors' = {}
    /\ sessions' = LET S == BagToSet(sessions)
                       after(s) == [s EXCEPT !.wired = FALSE, !.severed = TRUE]
                   IN [r \in {after(s) : s \in S} |->
                         BagCardinality([s \in {x \in S : after(x) = r} |-> sessions[s]])]
    /\ explicitlySevered' = TRUE
    /\ UNCHANGED <<apiKey, isAcousticCaptureActive, sessionRef, orphanTimers,
                   closesPending, pendingMedia, lastBlock>>

SeverNeuralLink ==
    /\ SeverEffects
    /\ UNCHANGED <<storeVars, appVars, outputClock, otherVars>>

\* if (isAcousticCaptureActive) { ... session.sendRealtimeInput(...) } with the
\* isAcousticCaptureActive the callback closed over
PayloadSent(capMic, flagNow) == capMic

\* scriptProcessor.onaudioprocess of the processor wired for session s:
\* onSpectralFluxAnalysis(rms), then the gated send.  lastBlock.flag records
\* the store's flag at the time of the block.
OnAudioProcess(s) ==
    /\ BagIn(s, sessions)
    /\ s.wired
    /\ lastBlock' = [valid |-> TRUE, sessionOpen |-> TRUE, amplitude |-> TRUE,
                     sent |-> PayloadSent(s.capMic, isAcousticCaptureActive),
                     flag |-> isAcousticCaptureActive]
    /\ UNCHANGED <<apiKey, isAcousticCaptureActive, isConnectionActive, connectionError,
                   retryAttempt, sessionRef, retryTimeoutRef, inputAudioContextRef,
                   outputAudioContextRef, streamRef, sessions, orphanTimers,
                   closesPending, pendingMedia, orphanProcessors, explicitlySevered>>
    /\ UNCHANGED <<storeVars, appVars, outputClock, otherVars>>

\* onaudioprocess of a processor whose session has ended: the amplitude event is
\* emitted, the payload reaches no session.
OnOrphanAudioProcess(capMic) ==
    /\ capMic \in orphanProcessors
    /\ lastBlock' = [valid |-> TRUE, sessionOpen |-> FALSE, amplitude |-> TRUE,
                     sent |-> FALSE, flag |-> isAcousticCaptureActive]
    /\ UNCHANGED <<apiKey, isAcousticCaptureActive, isConnectionActive, connectionError,
                   retryAttempt, sessionRef, retryTimeoutRef, inputAudioContextRef,
                   outputAudioContextRef, streamRef, sessions, orphanTimers,
                   closesPending, pendingMedia, orphanProcessors, explicitlySevered>>
    /\ UNCHANGED <<storeVars, appVars, outputClock, otherVars>>

toggleAcousticCapture ==
    /\ isAcousticCaptureActive' = ~isAcousticCaptureActive
    /\ UNCHANGED <<apiKey, isConnectionActive, connectionError, retryAttempt, sessionRef,
                   retryTimeoutRef, inputAudioContextRef, outputAudioContextRef,
                   streamRef, sessions, orphanTimers, closesPending, pendingMedia,
                   orphanProcessors, lastBlock, explicitlySevered>>
    /\ UNCHANGED <<storeVars, appVars, outputClock, otherVars>>

LinkInit ==
    /\ apiKey \in BOOLEAN
    /\ isAcousticCaptureActive = TRUE
    /\ isConnectionActive = FALSE
    /\ connectionError = NoError
    /\ retryAttempt = 0
    /\ sessionRef = FALSE
    /\ retryTimeoutRef = NoTimer
    /\ inputAudioContextRef = FALSE
    /\ outputAudioContextRef = FALSE
    /\ streamRef = FALSE
    /\ sessions = EmptyBag
    /\ orphanTimers = EmptyBag
    /\ closesPending = 0
    /\ pendingMedia = EmptyBag
    /\ orphanProcessors = {}
    /\ lastBlock = NoBlock
    /\ explicitlySevered = FALSE

StoreInit ==
    /\ entropyMetrics = <<>>
    /\ transmissionVectors = <<>>
    /\ cognitiveState = "NEURAL_IDLE"
    /\ activeScenario = 0
    /\ currentSpectralFlux = 0
    /\ viewMode = "ACTIVE_SIMULATION"
    /\ analysisReport = FALSE
    /\ selectedVoice = "Kore"
    /\ networkLatency = -1

(* ======================================================================= *)
(* Scenario engine: src/services/ScenarioInjectionModule.ts, SCENARIO_DB   *)
(* ======================================================================= *)
\* SCENARIO_DB.  triggerCondition is the sequence of the literal alternatives
\* of the pattern: "(reject|no|never)" is <<"reject", "no", "never">>.
SCENARIO_DB ==
    << [id |-> "SCN-ALPHA-01",
        probabilityManifolds |->
          << [triggerCondition |-> <<"reject", "no", "never">>,
              syntheticResponse |-> "Your rejection is noted, but the market cap suggests you have no leverage. Explain your liquidity position."],
             [triggerCondition |-> <<"agree", "yes", "okay">>,
              syntheticResponse |-> "Submission detected. We are lowering the offer by 15% due to your lack of conviction."],
             [triggerCondition |-> <<"pipeline", "ip", "tech">>,
              syntheticResponse |-> "The pipeline is speculative. Give me concrete revenue figures for Q3."] >>],
       [id |-> "SCN-BETA-04",
        probabilityManifolds |->
          << [triggerCondition |-> <<"percent", "equity", "stock">>,
              syntheticResponse |-> "Equity is reserved for critical talent. Prove you are indispensable."],
             [triggerCondition |-> <<"quit", "leave", "offer">>,
              syntheticResponse |-> "Is that a threat? The door is open. We have three candidates ready."] >>],
       [id |-> "SCN-GAMMA-09",
        probabilityManifolds |->
          << [triggerCondition |-> <<"risk", "inventory", "schedule">>,
              syntheticResponse |-> "We can prioritize your shipment if you agree to a 10% premium."] >>] >>

UpperCaseLetters == "ABCDEFGHIJKLMNOPQRSTUVWXYZ"
LowerCaseLetters == "abcdefghijklmnopqrstuvwxyz"

\* String.prototype.toLowerCase on one character
LowerCaseOf(c) ==
    IF \E i \in 1..Len(UpperCaseLetters) : SubSeq(UpperCaseLetters, i, i) = c
    THEN LET i == CHOOSE i \in 1..Len(UpperCaseLetters) :
                      SubSeq(UpperCaseLetters, i, i) = c
         IN SubSeq(LowerCaseLetters, i, i)
    ELSE c

\* Mutant of toLowerCase: the string is left as it is.
toLowerCase_Identity(s) == s

RECURSIVE toLowerCase(_)
\* userPayload.toLowerCase()
toLowerCase(s) ==
    IF Len(s) = 0 THEN ""
    ELSE LowerCaseOf(SubSeq(s, 1, 1)) \o toLowerCase(SubSeq(s, 2, Len(s)))

\* literal occurs somewhere in s
Includes(s, literal) ==
    \E i \in 1..(Len(s) - Len(literal) + 1) :
        SubSeq(s, i, i + Len(literal) - 1) = literal

\* new RegExp(manifold.triggerCondition).test(lowerPayload), for a pattern
\* that is an alternation of literals
RegExpTest(triggerCondition, lowerPayload) ==
    \E k \in 1..Len(triggerCondition) : Includes(lowerPayload, triggerCondition[k])

\* this.scenarioRegistry.find(s => s.id === id): <<the scenario>>, or <<>>
\* for undefined
getScenarioById_Fallback(registry, id) ==
    IF \E i \in 1..Len(registry) : registry[i].id = id
    THEN <<registry[CHOOSE i \in 1..Len(registry) :
                       /\ registry[i].id = id
                       /\ \A j \in 1..(i - 1) : registry[j].id # id]>>
    ELSE <<registry[1]>>

getScenarioById(registry, id) ==
    IF \E i \in 1..Len(registry) : registry[i].id = id
    THEN <<registry[CHOOSE i \in 1..Len(registry) :
                       /\ registry[i].id = id
                       /\ \A j \in 1..(i - 1) : registry[j].id # id]>>
    ELSE <<>>

\* Mutant of FindManifold: the last matching manifold wins.
FindManifold_Last(manifolds, lowerPayload, from) ==
    IF \E k \in from..Len(manifolds) :
           RegExpTest(manifolds[k].triggerCondition, lowerPayload)
    THEN CHOOSE k \in from..Len(manifolds) :
           /\ RegExpTest(manifolds[k].triggerCondition, lowerPayload)
           /\ \A j \in (k + 1)..Len(manifolds) :
                 ~RegExpTest(manifolds[j].triggerCondition, lowerPayload)
    ELSE 0

RECURSIVE FindManifold(_, _, _)
\* scenario.probabilityManifolds.find(manifold => regex.test(lowerPayload)),
\* scanning from index from: the index of the manifold found, 0 for undefined
FindManifold(manifolds, lowerPayload, from) ==
    IF from > Len(manifolds) THEN 0
    ELSE IF RegExpTest(manifolds[from].triggerCondition, lowerPayload) THEN from
    ELSE FindManifold(manifolds, lowerPayload, from + 1)

ScenarioDataCorruption == "ERROR: SCENARIO_DATA_CORRUPTION"
SimulationModeMarker == "[SIMULATION_MODE]: "
SimulationMiss ==
    "[SIMULATION_MODE]: I am not compelled by that argument. Please restructure your leverage."

\* Mutant of processOfflineSimulation: a miss returns the sentinel.
processOfflineSimulation_MissIsError(registry, scenarioId, userPayload) ==
    LET scenario == getScenarioById(registry, scenarioId) IN
    IF Len(scenario) = 0 THEN ScenarioDataCorruption
    ELSE LET manifolds == scenario[1].probabilityManifolds
             matched == FindManifold(manifolds, toLowerCase(userPayload), 1)
         IN IF matched # 0
            THEN SimulationModeMarker \o manifolds[matched].syntheticResponse
            ELSE ScenarioDataCorruption

\* ScenarioInjectionModule.processOfflineSimulation(scenarioId, userPayload)
processOfflineSimulation(registry, scenarioId, userPayload) ==
    LET scenario == getScenarioById(registry, scenarioId) IN
    IF Len(scenario) = 0 THEN ScenarioDataCorruption
    ELSE LET lowerPayload == toLowerCase(userPayload)
             manifolds == scenario[1].probabilityManifolds
             matchedManifold == FindManifold(manifolds, lowerPayload, 1)
         IN IF matchedManifold # 0
            THEN SimulationModeMarker \o manifolds[matchedManifold].syntheticResponse
            ELSE SimulationMiss

\* The number of manifolds whose pattern the call tests: find stops at the
\* first match; none is tested when the scenario is absent.
ManifoldsTested(registry, scenarioId, userPayload) ==
    LET scenario == getScenarioById(registry, scenarioId) IN
    IF Len(scenario) = 0 THEN 0
    ELSE LET manifolds == scenario[1].probabilityManifolds
             matchedManifold == FindManifold(manifolds, toLowerCase(userPayload), 1)
         IN IF matchedManifold # 0 THEN matchedManifold ELSE Len(manifolds)

\* The scenarios the registry refers to.
Registry(refs) == [i \in 1..Len(refs) |-> SCENARIO_DB[refs[i]]]

\* private constructor: this.scenarioRegistry = SCENARIO_DB
SimIdle ==
    /\ scenarioRegistry = [i \in 1..Len(SCENARIO_DB) |-> i]
    /\ simLog = <<>>

\* No executeDeepThought call was made yet.
NoThought ==
    [phase |-> "idle", prompt |-> "", attempts |-> 0, fetches |-> 0, failures |-> 0,
     cacheLookups |-> 0, modelCalls |-> 0, delayMs |-> 0,
     response |-> [status |-> 0, body |-> "", error |-> "", response |-> ""]]

ThinkIdle ==
    /\ thought = NoThought
    /\ thoughtLog = <<>>

\* nextStartTimeRef = useRef<number>(0); no context, nothing received
PlaybackIdle ==
    /\ outputClock = 0
    /\ nextStartTimeRef = 0
    /\ pendingDecodes = EmptyBag
    /\ scheduled = <<>>

\* No function of AlgorithmicCore is under test.
CoreIdle ==
    /\ coreInput = <<>>
    /\ coreOutput = <<>>

\* AudioProcessor's constructor: a zeroed buffer, written from its start
WorkletIdle ==
    /\ buffer = [k \in 1..bufferSize |-> 0]
    /\ bufferIndex = 0
    /\ portMessages = <<>>
    /\ inputSamples = <<>>

\* Date.now() at load; no response due, nothing logged
AppIdle ==
    /\ now = 0
    /\ pendingResponses = EmptyBag
    /\ appendedMetrics = <<>>
    /\ loggedVectors = <<>>

AppEnvInit ==
    /\ PlaybackIdle
    /\ SimIdle
    /\ ThinkIdle
    /\ CoreIdle
    /\ WorkletIdle
    /\ AppIdle

Init == LinkInit /\ StoreInit /\ AppEnvInit

Next ==
    \/ ManualInitiate
    \/ \E c \in BagToSet(pendingMedia) : MediaResolve(c)
    \/ \E c \in BagToSet(pendingMedia) : MediaReject(c)
    \/ \E s \in BagToSet(sessions) : OnOpen(s)
    \/ \E s \in BagToSet(sessions) : OnError(s)
    \/ \E s \in BagToSet(sessions) : OnClose(s)
    \/ OnCloseAfterError
    \/ TimerFire
    \/ \E t \in BagToSet(orphanTimers) : OrphanTimerFire(t)
    \/ SeverNeuralLink

Spec == Init /\ [][Next]_vars

\* Connecting: the behaviours in which no session opens, so that every
\* attempt ends in a configuration error, a transport error or a sever.
ConnectNext ==
    \/ ManualInitiate
    \/ \E c \in BagToSet(pendingMedia) : MediaResolve(c)
    \/ \E c \in BagToSet(pendingMedia) : MediaReject(c)
    \/ \E s \in BagToSet(sessions) : OnError(s)
    \/ OnCloseAfterError
    \/ TimerFire
    \/ \E t \in BagToSet(orphanTimers) : OrphanTimerFire(t)
    \/ SeverNeuralLink

ConnectSpec == Init /\ [][ConnectNext]_vars

\* The capture path of the link: the behaviours in which no transport error
\* occurs, with the audio blocks and the mic toggle.
CaptureNext ==
    \/ ManualInitiate
    \/ \E c \in BagToSet(pendingMedia) : MediaResolve(c)
    \/ \E c \in BagToSet(pendingMedia) : MediaReject(c)
    \/ \E s \in BagToSet(sessions) : OnOpen(s)
    \/ \E s \in BagToSet(sessions) : OnClose(s)
    \/ SeverNeuralLink
    \/ \E s \in BagToSet(sessions) : OnAudioProcess(s)
    \/ \E m \in orphanProcessors : OnOrphanAudioProcess(m)
    \/ toggleAcousticCapture

CaptureSpec == Init /\ [][CaptureNext]_vars

(* ======================================================================= *)
(* Store: src/store/useAppStore.ts                                         *)
(* ======================================================================= *)
\* Array.prototype.slice(-n): the last n elements, all of them if fewer
SliceLast(seq, n) ==
    IF Len(seq) <= n THEN seq ELSE SubSeq(seq, Len(seq) - n + 1, Len(seq))

\* Mutant of addEntropyMetric: an off-by-one tail, slice(-20).
addEntropyMetric_TailOffByOne(window, metric) ==
    SliceLast(window, WINDOW_TAIL + 1) \o <<metric>>

\* entropyMetrics: [...state.entropyMetrics.slice(-19), metric]
addEntropyMetric(window, metric) == SliceLast(window, WINDOW_TAIL) \o <<metric>>

\* Mutant of addTransmissionVector: the new vector is put first.
addTransmissionVector_Prepend(log, vector) == <<vector>> \o log

\* transmissionVectors: [...state.transmissionVectors, vector]
addTransmissionVector(log, vector) == log \o <<vector>>

\* Mutant of clearTransmissionVectors: the log is kept.
clearTransmissionVectors_Keep(log) == log

\* clearTransmissionVectors: () => set({ transmissionVectors: [] })
clearTransmissionVectors(log) == <<>>

\* clearEntropyMetrics: () => set({ entropyMetrics: [] })
clearEntropyMetrics(window) == <<>>

\* The metric handleTranscriptUpdate builds: timestamp: Date.now(); the scored
\* fields are functions of the utterance and are not part of the window logic.
Metric == [timestamp |-> now]

\* The clock of Date.now() advances.
AdvanceClock ==
    /\ now < MaxClock
    /\ now' = now + 1
    /\ UNCHANGED <<pendingResponses, appendedMetrics, loggedVectors>>
    /\ UNCHANGED <<linkVars, storeVars, outputClock, otherVars>>

\* useAppStore.addEntropyMetric(metric)
StoreAddEntropyMetric ==
    /\ Len(appendedMetrics) < MaxAppends
    /\ entropyMetrics' = addEntropyMetric(entropyMetrics, Metric)
    /\ appendedMetrics' = Append(appendedMetrics, Metric)
    /\ UNCHANGED <<transmissionVectors, cognitiveState, activeScenario,
                   currentSpectralFlux, viewMode, analysisReport, selectedVoice,
                   networkLatency>>
    /\ UNCHANGED <<now, pendingResponses, loggedVectors>>
    /\ UNCHANGED <<linkVars, outputClock, otherVars>>

\* useAppStore.clearEntropyMetrics()
StoreClearEntropyMetrics ==
    /\ entropyMetrics' = clearEntropyMetrics(entropyMetrics)
    /\ appendedMetrics' = <<>>
    /\ UNCHANGED <<transmissionVectors, cognitiveState, activeScenario,
                   currentSpectralFlux, viewMode, analysisReport, selectedVoice,
                   networkLatency>>
    /\ UNCHANGED <<now, pendingResponses, loggedVectors>>
    /\ UNCHANGED <<linkVars, outputClock, otherVars>>

\* Mutant of ResetEffects: the reset also restores the voice and the latency.
ResetEffects_Everything ==
    /\ entropyMetrics' = <<>>
    /\ transmissionVectors' = <<>>
    /\ cognitiveState' = "NEURAL_IDLE"
    /\ currentSpectralFlux' = 0
    /\ viewMode' = "ACTIVE_SIMULATION"
    /\ analysisReport' = FALSE
    /\ appendedMetrics' = <<>>
    /\ loggedVectors' = <<>>
    /\ selectedVoice' = "Kore"
    /\ networkLatency' = -1
    /\ UNCHANGED activeScenario

\* useAppStore.resetSimulation(): the six fields it sets
ResetEffects ==
    /\ entropyMetrics' = <<>>
    /\ transmissionVectors' = <<>>
    /\ cognitiveState' = "NEURAL_IDLE"
    /\ currentSpectralFlux' = 0
    /\ viewMode' = "ACTIVE_SIMULATION"
    /\ analysisReport' = FALSE
    /\ appendedMetrics' = <<>>
    /\ loggedVectors' = <<>>
    /\ UNCHANGED <<activeScenario, selectedVoice, networkLatency>>

StoreResetSimulation ==
    /\ ResetEffects
    /\ UNCHANGED <<now, pendingResponses>>
    /\ UNCHANGED <<linkVars, outputClock, otherVars>>

MetricsNext ==
    \/ AdvanceClock
    \/ StoreAddEntropyMetric
    \/ StoreClearEntropyMetrics
    \/ StoreResetSimulation

MetricsSpec == Init /\ [][MetricsNext]_vars

(* ======================================================================= *)
(* Dialogue: src/App.tsx, src/components/NeuralChatInterface.tsx           *)
(* ======================================================================= *)
ScenarioIds == 1..NumScenarios
\* Utterances typed into the chat: one that a rule of every scenario but the
\* third matches ("offer" in SCN-BETA-04, "no" in SCN-ALPHA-01), one that none matches.
Inputs == {"No offer", "Maybe later"}

\* The link as the App sees it when a session is open.
LinkActive ==
    /\ apiKey = TRUE
    /\ isAcousticCaptureActive = TRUE
    /\ isConnectionActive = TRUE
    /\ connectionError = NoError
    /\ retryAttempt = 0
    /\ sessionRef = TRUE
    /\ retryTimeoutRef = NoTimer
    /\ inputAudioContextRef = TRUE
    /\ outputAudioContextRef = TRUE
    /\ streamRef = TRUE
    /\ sessions = One([NewSession(Closure(0, TRUE, 0)) EXCEPT
                         !.status = "open", !.wired = TRUE])
    /\ orphanTimers = EmptyBag
    /\ closesPending = 0
    /\ pendingMedia = EmptyBag
    /\ orphanProcessors = {}
    /\ lastBlock = NoBlock
    /\ explicitlySevered = FALSE

\* The store after the mount effect: activeScenario is the first of the library.
StoreMounted ==
    /\ entropyMetrics = <<>>
    /\ transmissionVectors = <<>>
    /\ cognitiveState = "NEURAL_IDLE"
    /\ activeScenario = 1
    /\ currentSpectralFlux = 0
    /\ viewMode = "ACTIVE_SIMULATION"
    /\ analysisReport = FALSE
    /\ selectedVoice = "Kore"
    /\ networkLatency = -1

AppInit == (LinkInit \/ LinkActive) /\ StoreMounted /\ AppEnvInit

Vector(origin, payload) == [origin |-> origin, payload |-> payload, timestamp |-> now]

\* Mutant of UseLiveBranch: the error alone decides.
UseLiveBranch_IgnoreActive == connectionError = NoError

\* if (isConnectionActive && deepThinkServiceRef.current && !connectionError)
UseLiveBranch == isConnectionActive /\ connectionError = NoError

\* The analysis view replaces the simulation view (and the chat with it).
AnalysisViewShown == viewMode = "POST_MORTEM_DEBRIEF" /\ analysisReport

\* NeuralChatInterface.handleSubmission -> App.handleManualTransmit(input)
HandleManualTransmit(input) ==
    /\ ~AnalysisViewShown
    /\ cognitiveState # "SYNAPTIC_PROCESSING"
    /\ Len(transmissionVectors) < MaxLog
    /\ BagCardinality(pendingResponses) < MaxPending
    /\ transmissionVectors' =
           addTransmissionVector(transmissionVectors, Vector("OPERATOR", input))
    /\ loggedVectors' = Append(loggedVectors, Vector("OPERATOR", input))
    /\ cognitiveState' = "SYNAPTIC_PROCESSING"
    /\ IF activeScenario # 0
       THEN /\ entropyMetrics' = addEntropyMetric(entropyMetrics, Metric)
            /\ appendedMetrics' = Append(appendedMetrics, Metric)
       ELSE UNCHANGED <<entropyMetrics, appendedMetrics>>
    /\ pendingResponses' =
           IF UseLiveBranch
           THEN pendingResponses (+)
                One([kind |-> "remote", scenario |-> activeScenario, input |-> input])
           ELSE IF activeScenario # 0
           THEN pendingResponses (+)
                One([kind |-> "offline", scenario |-> activeScenario, input |-> input])
           ELSE pendingResponses
    /\ UNCHANGED <<activeScenario, currentSpectralFlux, viewMode, analysisReport,
                   selectedVoice, networkLatency, now>>
    /\ UNCHANGED <<linkVars, outputClock, otherVars>>

\* The text executeDeepThought resolves to for this input (the text is the
\* remote model's; only its origin is kept).
RemoteThought(input) == "[REMOTE]: " \o input

\* The text of the response r: executeDeepThought's result, or
\* processOfflineSimulation(activeScenario.id, input) of the captured scenario.
ResponsePayload(r) ==
    IF r.kind = "offline"
    THEN processOfflineSimulation(Registry(scenarioRegistry),
                                  Registry(scenarioRegistry)[r.scenario].id, r.input)
    ELSE RemoteThought(r.input)

\* Mutant of ResponseArrives: the callback runs and appends nothing.
ResponseArrives_Dropped(r) ==
    /\ BagIn(r, pendingResponses)
    /\ r.kind \in {"remote", "offline"}
    /\ pendingResponses' = pendingResponses (-) One(r)
    /\ UNCHANGED <<storeVars, now, appendedMetrics, loggedVectors>>
    /\ UNCHANGED <<linkVars, outputClock, otherVars>>

\* addSyntheticResponse(payload), from the offline timer or after the await
ResponseArrives(r) ==
    /\ BagIn(r, pendingResponses)
    /\ r.kind \in {"remote", "offline"}
    /\ pendingResponses' = pendingResponses (-) One(r)
    /\ transmissionVectors' =
           addTransmissionVector(transmissionVectors,
                                 Vector("SYNTHETIC_AGENT", ResponsePayload(r)))
    /\ loggedVectors' =
           Append(loggedVectors, Vector("SYNTHETIC_AGENT", ResponsePayload(r)))
    /\ cognitiveState' = "NEURAL_IDLE"
    /\ UNCHANGED <<entropyMetrics, activeScenario, currentSpectralFlux, viewMode,
                   analysisReport, selectedVoice, networkLatency, now, appendedMetrics>>
    /\ UNCHANGED <<linkVars, outputClock, otherVars>>

\* handleScenarioChange with e.target.value = newId; id 0 is not in the registry
HandleScenarioChange(newId) ==
    /\ ~AnalysisViewShown
    /\ IF newId \in ScenarioIds
       THEN /\ activeScenario' = newId
            /\ transmissionVectors' = clearTransmissionVectors(transmissionVectors)
            /\ entropyMetrics' = clearEntropyMetrics(entropyMetrics)
            /\ loggedVectors' = <<>>
            /\ appendedMetrics' = <<>>
       ELSE UNCHANGED <<activeScenario, transmissionVectors, entropyMetrics,
                        loggedVectors, appendedMetrics>>
    /\ UNCHANGED <<cognitiveState, currentSpectralFlux, viewMode, analysisReport,
                   selectedVoice, networkLatency, now, pendingResponses>>
    /\ UNCHANGED <<linkVars, outputClock, otherVars>>

\* handleTerminateAndAnalyze up to its await
HandleTerminateAndAnalyze ==
    /\ ~AnalysisViewShown
    /\ Len(transmissionVectors) >= 2
    /\ cognitiveState # "SYNAPTIC_PROCESSING"
    /\ BagCardinality(pendingResponses) < MaxPending
    /\ IF isConnectionActive THEN SeverEffects ELSE UNCHANGED linkVars
    /\ UNCHANGED <<outputClock, otherVars>>
    /\ cognitiveState' = "SYNAPTIC_PROCESSING"
    /\ pendingResponses' =
           pendingResponses (+) One([kind |-> "analysis", scenario |-> 0, input |-> ""])
    /\ UNCHANGED <<entropyMetrics, transmissionVectors, activeScenario,
                   currentSpectralFlux, viewMode, analysisReport, selectedVoice,
                   networkLatency, now, appendedMetrics, loggedVectors>>

\* generateStrategicAnalysis settles: the try or the catch, then the finally
AnalysisSettles(r, ok) ==
    /\ BagIn(r, pendingResponses)
    /\ r.kind = "analysis"
    /\ pendingResponses' = pendingResponses (-) One(r)
    /\ IF ok THEN analysisReport' = TRUE /\ viewMode' = "POST_MORTEM_DEBRIEF"
       ELSE UNCHANGED <<analysisReport, viewMode>>
    /\ cognitiveState' = "NEURAL_IDLE"
    /\ UNCHANGED <<entropyMetrics, transmissionVectors, activeScenario,
                   currentSpectralFlux, selectedVoice, networkLatency, now,
                   appendedMetrics, loggedVectors>>
    /\ UNCHANGED <<linkVars, outputClock, otherVars>>

\* PostMortemAnalysisView onReset={resetSimulation}
ResetFromAnalysis ==
    /\ AnalysisViewShown
    /\ ResetEffects
    /\ UNCHANGED <<now, pendingResponses>>
    /\ UNCHANGED <<linkVars, outputClock, otherVars>>

\* The connect button while the link is active: severNeuralLink
SeverButton ==
    /\ ~AnalysisViewShown
    /\ isConnectionActive
    /\ SeverNeuralLink

\* The connect button while the link is not active: initiateNeuralLink
ConnectButton ==
    /\ ~AnalysisViewShown
    /\ ~isConnectionActive
    /\ ManualInitiate

AppNext ==
    \/ AdvanceClock
    \/ \E input \in Inputs : HandleManualTransmit(input)
    \/ \E r \in BagToSet(pendingResponses) : ResponseArrives(r)
    \/ \E id \in ScenarioIds \cup {0} : HandleScenarioChange(id)
    \/ HandleTerminateAndAnalyze
    \/ \E r \in BagToSet(pendingResponses), ok \in BOOLEAN : AnalysisSettles(r, ok)
    \/ ResetFromAnalysis
    \/ SeverButton
    \/ \E s \in BagToSet(sessions) : OnClose(s)

AppSpec == AppInit /\ [][AppNext]_vars

\* The chat next to the connect button: transmit, answer, scenario change,
\* connect and sever.
TransmitNext ==
    \/ ConnectButton
    \/ SeverButton
    \/ \E s \in BagToSet(sessions) : OnClose(s)
    \/ \E input \in Inputs : HandleManualTransmit(input)
    \/ \E r \in BagToSet(pendingResponses) : ResponseArrives(r)
    \/ \E id \in ScenarioIds \cup {0} : HandleScenarioChange(id)

TransmitSpec == AppInit /\ [][TransmitNext]_vars

\* The store on its own: every field is moved off its initial value by its
\* setter, then the three compound actions are applied.
StoreVoices == {"Kore", "Fenrir"}
StoreLatencies == {-1, 42}
StoreFluxLevels == {0, 5}
StoreVectors == {Vector("OPERATOR", "No offer")}

\* What every action of the store leaves alone: the hook, the clock, the
\* responses in flight and the rest of the program.
StoreRest ==
    /\ UNCHANGED <<apiKey, isConnectionActive, connectionError, retryAttempt, sessionRef,
                   retryTimeoutRef, inputAudioContextRef, outputAudioContextRef,
                   streamRef, sessions, orphanTimers, closesPending, pendingMedia,
                   orphanProcessors, lastBlock, explicitlySevered>>
    /\ UNCHANGED <<now, pendingResponses, outputClock, otherVars>>

\* useAppStore.addTransmissionVector(vector)
StoreAddTransmissionVector(vector) ==
    /\ Len(transmissionVectors) < MaxLog
    /\ transmissionVectors' = addTransmissionVector(transmissionVectors, vector)
    /\ loggedVectors' = Append(loggedVectors, vector)
    /\ UNCHANGED <<entropyMetrics, cognitiveState, activeScenario, currentSpectralFlux,
                   viewMode, analysisReport, selectedVoice, networkLatency>>
    /\ UNCHANGED <<isAcousticCaptureActive, appendedMetrics>>
    /\ StoreRest

\* setActiveScenario: (scenario) => set({ activeScenario: scenario })
setActiveScenario(scenario) ==
    /\ activeScenario' = scenario
    /\ UNCHANGED <<entropyMetrics, transmissionVectors, cognitiveState,
                   currentSpectralFlux, viewMode, analysisReport, selectedVoice,
                   networkLatency>>
    /\ UNCHANGED <<isAcousticCaptureActive, appendedMetrics, loggedVectors>>
    /\ StoreRest

\* setCognitiveState: (cognitiveState) => set({ cognitiveState })
setCognitiveState(state) ==
    /\ cognitiveState' = state
    /\ UNCHANGED <<entropyMetrics, transmissionVectors, activeScenario,
                   currentSpectralFlux, viewMode, analysisReport, selectedVoice,
                   networkLatency>>
    /\ UNCHANGED <<isAcousticCaptureActive, appendedMetrics, loggedVectors>>
    /\ StoreRest

\* setCurrentSpectralFlux: (flux) => set({ currentSpectralFlux: flux })
setCurrentSpectralFlux(flux) ==
    /\ currentSpectralFlux' = flux
    /\ UNCHANGED <<entropyMetrics, transmissionVectors, cognitiveState, activeScenario,
                   viewMode, analysisReport, selectedVoice, networkLatency>>
    /\ UNCHANGED <<isAcousticCaptureActive, appendedMetrics, loggedVectors>>
    /\ StoreRest

\* setSelectedVoice: (voice) => set({ selectedVoice: voice })
setSelectedVoice(voice) ==
    /\ selectedVoice' = voice
    /\ UNCHANGED <<entropyMetrics, transmissionVectors, cognitiveState, activeScenario,
                   currentSpectralFlux, viewMode, analysisReport, networkLatency>>
    /\ UNCHANGED <<isAcousticCaptureActive, appendedMetrics, loggedVectors>>
    /\ StoreRest

\* setNetworkLatency: (latency) => set({ networkLatency: latency })
setNetworkLatency(latency) ==
    /\ networkLatency' = latency
    /\ UNCHANGED <<entropyMetrics, transmissionVectors, cognitiveState, activeScenario,
                   currentSpectralFlux, viewMode, analysisReport, selectedVoice>>
    /\ UNCHANGED <<isAcousticCaptureActive, appendedMetrics, loggedVectors>>
    /\ StoreRest

\* setViewMode: (mode) => set({ viewMode: mode })
setViewMode(mode) ==
    /\ viewMode' = mode
    /\ UNCHANGED <<entropyMetrics, transmissionVectors, cognitiveState, activeScenario,
                   currentSpectralFlux, analysisReport, selectedVoice, networkLatency>>
    /\ UNCHANGED <<isAcousticCaptureActive, appendedMetrics, loggedVectors>>
    /\ StoreRest

\* setAnalysisReport: (report) => set({ analysisReport: report })
setAnalysisReport(report) ==
    /\ analysisReport' = report
    /\ UNCHANGED <<entropyMetrics, transmissionVectors, cognitiveState, activeScenario,
                   currentSpectralFlux, viewMode, selectedVoice, networkLatency>>
    /\ UNCHANGED <<isAcousticCaptureActive, appendedMetrics, loggedVectors>>
    /\ StoreRest

StoreNext ==
    \/ StoreAddEntropyMetric
    \/ \E vector \in StoreVectors : StoreAddTransmissionVector(vector)
    \/ StoreResetSimulation
    \/ toggleAcousticCapture
    \/ \E scenario \in ScenarioIds : setActiveScenario(scenario)
    \/ \E state \in {"NEURAL_IDLE", "SYNAPTIC_PROCESSING"} : setCognitiveState(state)
    \/ \E flux \in StoreFluxLevels : setCurrentSpectralFlux(flux)
    \/ \E voice \in StoreVoices : setSelectedVoice(voice)
    \/ \E latency \in StoreLatencies : setNetworkLatency(latency)
    \/ \E mode \in {"ACTIVE_SIMULATION", "POST_MORTEM_DEBRIEF"} : setViewMode(mode)
    \/ \E report \in BOOLEAN : setAnalysisReport(report)

StoreSpec == Init /\ [][StoreNext]_vars

\* The offline timer fires or the remote call completes: the step of
\* ResponseArrives, told by what it does to the responses that are due.
ResponseFires ==
    \E r \in BagToSet(pendingResponses) :
        /\ r.kind \in {"remote", "offline"}
        /\ pendingResponses' = pendingResponses (-) One(r)

\* The same, with timers firing and remote calls completing: a response that
\* is due eventually arrives.
TransmitLiveSpec ==
    /\ AppInit
    /\ [][TransmitNext]_vars
    /\ WF_pendingResponses(ResponseFires)

(* ======================================================================= *)
(* Playback: src/hooks/useVoiceStreamProcessor.ts, callbacks.onmessage     *)
(* ======================================================================= *)
\* buffer.duration of a decoded buffer, in clock ticks
Durations == 1..MaxDuration

\* Mutant of ScheduleStart: the cursor is not snapped forward to the clock.
ScheduleStart_NoSnap(cursor, clock) == cursor

\* Math.max(nextStartTimeRef.current, outputAudioContextRef.current.currentTime)
ScheduleStart(cursor, clock) == IF cursor < clock THEN clock ELSE cursor

\* Mutant of AdvanceCursor: the cursor is left at the start of the buffer.
AdvanceCursor_Stuck(start, duration) == start

\* nextStartTimeRef.current += buffer.duration
AdvanceCursor(start, duration) == start + duration

\* The playback clock of the output context runs.
AudioClockAdvance ==
    /\ outputAudioContextRef
    /\ outputClock < MaxPlayClock
    /\ outputClock' = outputClock + 1
    /\ UNCHANGED <<linkVars, storeVars, appVars, otherVars>>

\* callbacks.onmessage of session s up to its await: the transcription, if
\* the message has one, goes to onTranscriptUpdate (App.handleTranscriptUpdate,
\* which appends a metric when a scenario is active; activeScenario never
\* returns to null, so the handler a session captured sees what the store
\* holds); audio of duration d, if any, is handed to decodeAudioData when an
\* output context exists.  d = 0: the message carries no audio.
OnMessage(s, hasText, d) ==
    /\ BagIn(s, sessions)
    /\ s.status = "open"
    /\ hasText \/ d # 0
    /\ IF hasText /\ activeScenario # 0
       THEN /\ Len(appendedMetrics) < MaxTranscripts
            /\ entropyMetrics' = addEntropyMetric(entropyMetrics, Metric)
            /\ appendedMetrics' = Append(appendedMetrics, Metric)
       ELSE UNCHANGED <<entropyMetrics, appendedMetrics>>
    /\ IF d # 0 /\ outputAudioContextRef
       THEN /\ BagCardinality(pendingDecodes) < MaxPendingDecodes
            /\ pendingDecodes' = pendingDecodes (+) One(d)
       ELSE UNCHANGED pendingDecodes
    /\ UNCHANGED <<transmissionVectors, cognitiveState, activeScenario,
                   currentSpectralFlux, viewMode, analysisReport, selectedVoice,
                   networkLatency, now, pendingResponses, loggedVectors>>
    /\ UNCHANGED <<linkVars, outputClock, nextStartTimeRef, scheduled, auxVars>>

\* onmessage after the await, for a decoded buffer of duration d: lines
\* 163-175 run without suspension.  With the output context gone
\* (severNeuralLink ran meanwhile) reading currentTime throws and nothing is
\* scheduled.
DecodeDone(d) ==
    /\ BagIn(d, pendingDecodes)
    /\ pendingDecodes' = pendingDecodes (-) One(d)
    /\ IF outputAudioContextRef
       THEN LET start == ScheduleStart(nextStartTimeRef, outputClock) IN
            /\ Len(scheduled) < MaxScheduled
            /\ scheduled' = Append(scheduled,
                                   [start |-> start, duration |-> d,
                                    clock |-> outputClock, cursor |-> nextStartTimeRef])
            /\ nextStartTimeRef' = AdvanceCursor(start, d)
       ELSE UNCHANGED <<scheduled, nextStartTimeRef>>
    /\ UNCHANGED <<linkVars, storeVars, appVars, outputClock, auxVars>>

\* decodeAudioData throws (new Int16Array on an odd number of bytes): the
\* onmessage promise rejects and nothing is scheduled.
DecodeThrows(d) ==
    /\ BagIn(d, pendingDecodes)
    /\ pendingDecodes' = pendingDecodes (-) One(d)
    /\ UNCHANGED <<linkVars, storeVars, appVars, outputClock, nextStartTimeRef,
                   scheduled, auxVars>>

\* The App mounted and the link active with one open session.  PlaybackNext
\* has the handlers that read or write the cursor, and severNeuralLink, which
\* closes the output context under them; the session, which severNeuralLink
\* does not close, keeps delivering.
PlaybackInit == LinkActive /\ StoreMounted /\ AppEnvInit

PlaybackNext ==
    \/ \E s \in BagToSet(sessions), hasText \in BOOLEAN, d \in Durations \cup {0} :
          OnMessage(s, hasText, d)
    \/ \E d \in BagToSet(pendingDecodes) : DecodeDone(d)
    \/ \E d \in BagToSet(pendingDecodes) : DecodeThrows(d)
    \/ AudioClockAdvance
    \/ SeverNeuralLink

PlaybackSpec == PlaybackInit /\ [][PlaybackNext]_vars

(* ======================================================================= *)
(* Scenario engine calls                                                   *)
(* ======================================================================= *)
\* Scenario ids a caller passes: those of SCENARIO_DB and one that is absent.
SimScenarioIds == {"SCN-ALPHA-01", "SCN-BETA-04", "SCN-GAMMA-09", "SCN-OMEGA-00"}

\* Utterances a caller passes.
SimPayloads ==
    {"I AGREE to REJECT", "Maybe later", "", "the schedule slips", "Stock"}

\* scenarioModule.processOfflineSimulation(scenarioId, userPayload)
ProcessOfflineSimulation(scenarioId, userPayload) ==
    /\ Len(simLog) < MaxSimCalls
    /\ simLog' = Append(simLog,
          [scenarioId |-> scenarioId, userPayload |-> userPayload,
           result |-> processOfflineSimulation(Registry(scenarioRegistry), scenarioId,
                                               userPayload),
           tested |-> ManifoldsTested(Registry(scenarioRegistry), scenarioId, userPayload)])
    /\ UNCHANGED scenarioRegistry
    /\ UNCHANGED <<linkVars, storeVars, appVars, outputClock, playbackVars, thinkVars,
                   coreVars, workletVars>>

SimNext ==
    \E scenarioId \in SimScenarioIds, userPayload \in SimPayloads :
        ProcessOfflineSimulation(scenarioId, userPayload)

SimSpec == Init /\ [][SimNext]_vars

\* Utterances that differ only in letter case, and one that matches no rule.
CasePayloads == {"Stock", "STOCK", "stock", "I AGREE to REJECT", "i agree to reject",
                 "Maybe later"}

SimCaseNext ==
    \E scenarioId \in SimScenarioIds, userPayload \in CasePayloads :
        ProcessOfflineSimulation(scenarioId, userPayload)

SimCaseSpec == Init /\ [][SimCaseNext]_vars

(* ======================================================================= *)
(* Deep thought: src/unnamed/part_006 (GeminiDeepThinkService) and         *)
(* src/app/api/negotiate/route.ts (POST)                                   *)
(* ======================================================================= *)
\* Prompts a caller passes: an empty one and a non-empty one.
Prompts == {"", "No offer"}

CircuitBreakerActivated == "CIRCUIT_BREAKER_ACTIVATED: UNABLE_TO_PROCESS_THOUGHT_PATTERN"
EmptyResponse == "DATA_CORRUPTION_EMPTY_RESPONSE"
SystemFailure == "SYSTEM_FAILURE"

\* The text the cache holds for a prompt.
CachedText == "Hold the price."

\* What POST does with a request that passed validation.
RouteOutcomes == {"rate_limited", "not_configured", "cache_throws", "hit", "miss"}

JsonReply(status, error, response) ==
    [status |-> status, body |-> "json", error |-> error, response |-> response]

\* POST(request): the reply, by the handler's steps in order: 1. rate
\* limiting, 2. API key, 3. parse and validate, 4. cache, 5-7. the model's
\* answer as an event stream.
RouteReply(prompt, outcome) ==
    IF outcome = "rate_limited"
    THEN JsonReply(429, "Too many requests. Please try again later.", "")
    ELSE IF outcome = "not_configured"
    THEN JsonReply(500, "API service not configured", "")
    ELSE IF prompt = ""
    THEN JsonReply(400, "Prompt is required", "")
    ELSE IF outcome = "cache_throws"
    THEN JsonReply(500, "Internal server error", "")
    ELSE IF outcome = "hit"
    THEN JsonReply(200, "", CachedText)
    ELSE [status |-> 200, body |-> "event-stream", error |-> "", response |-> ""]

\* The request gets as far as CachedNegotiationService.getCachedResponse.
RouteLooksUpCache(prompt, outcome) ==
    outcome \in {"cache_throws", "hit", "miss"} /\ prompt # ""

\* The request gets as far as ai.models.streamGenerateContent.
RouteCallsModel(prompt, outcome) == outcome = "miss" /\ prompt # ""

\* return <result>: the call settles and is logged
Settle(t, result) ==
    /\ thoughtLog' = Append(thoughtLog,
          [prompt |-> t.prompt, fetches |-> t.fetches, failures |-> t.failures,
           cacheLookups |-> t.cacheLookups, modelCalls |-> t.modelCalls,
           lastStatus |-> t.response.status, result |-> result])
    /\ thought' = NoThought

\* Mutant of BreakerTripped: the breaker never trips.
BreakerTripped_Never(attempts) == FALSE

\* if (attempts >= CircuitBreakerThresholds.MAX_RETRY_ATTEMPTS)
BreakerTripped(attempts) == attempts >= MAX_RETRY_ATTEMPTS

\* Mutant of BackoffDelayMs: the same delay after every failure.
BackoffDelayMs_Fixed(attempts) == 1000

\* Math.pow(2, attempts) * 1000
BackoffDelayMs(attempts) == (2 ^ attempts) * 1000

\* The catch block, entered from t: attempts++, then the breaker's return or
\* the backoff timer.
CatchFailure(t) ==
    LET attempts == t.attempts + 1
        failed == [t EXCEPT !.attempts = attempts, !.failures = @ + 1]
    IN IF BreakerTripped(attempts)
       THEN Settle(failed, CircuitBreakerActivated)
       ELSE /\ thought' = [failed EXCEPT !.phase = "backoff",
                                         !.delayMs = BackoffDelayMs(attempts)]
            /\ UNCHANGED thoughtLog

\* executeDeepThought(prompt, history) up to its first await: attempts = 0,
\* the loop is entered and fetch is called.
ExecuteDeepThought(prompt) ==
    /\ thought.phase = "idle"
    /\ Len(thoughtLog) < MaxThoughtCalls
    /\ thought' = [NoThought EXCEPT !.phase = "fetching", !.prompt = prompt,
                                    !.fetches = 1]
    /\ UNCHANGED thoughtLog
    /\ UNCHANGED <<linkVars, storeVars, appVars, outputClock, playbackVars, simVars,
                   coreVars, workletVars>>

\* POST /api/negotiate handles the request of the call in progress.
POST(outcome) ==
    /\ thought.phase = "fetching"
    /\ thought' = [thought EXCEPT
          !.phase = "replied",
          !.response = RouteReply(thought.prompt, outcome),
          !.cacheLookups = IF RouteLooksUpCache(thought.prompt, outcome) THEN @ + 1 ELSE @,
          !.modelCalls = IF RouteCallsModel(thought.prompt, outcome) THEN @ + 1 ELSE @]
    /\ UNCHANGED thoughtLog
    /\ UNCHANGED <<linkVars, storeVars, appVars, outputClock, playbackVars, simVars,
                   coreVars, workletVars>>

\* fetch rejects (no network): the catch block
FetchRejects ==
    /\ thought.phase = "fetching"
    /\ CatchFailure(thought)
    /\ UNCHANGED <<linkVars, storeVars, appVars, outputClock, playbackVars, simVars,
                   coreVars, workletVars>>

\* fetch resolves: the rest of the try block.  !response.ok throws; so does
\* response.json() on an event stream, and a body with an error; otherwise
\* return data.response || "DATA_CORRUPTION_EMPTY_RESPONSE".
FetchResolves ==
    /\ thought.phase = "replied"
    /\ LET r == thought.response IN
       IF ~(r.status \in 200..299) \/ r.body # "json" \/ r.error # ""
       THEN CatchFailure(thought)
       ELSE Settle(thought, IF r.response # "" THEN r.response ELSE EmptyResponse)
    /\ UNCHANGED <<linkVars, storeVars, appVars, outputClock, playbackVars, simVars,
                   coreVars, workletVars>>

\* The backoff timer fires: the loop test, then the next fetch, or the
\* return behind the loop.
BackoffElapses ==
    /\ thought.phase = "backoff"
    /\ IF thought.attempts < MAX_RETRY_ATTEMPTS
       THEN /\ thought' = [thought EXCEPT !.phase = "fetching", !.fetches = @ + 1,
                                          !.delayMs = 0]
            /\ UNCHANGED thoughtLog
       ELSE Settle(thought, SystemFailure)
    /\ UNCHANGED <<linkVars, storeVars, appVars, outputClock, playbackVars, simVars,
                   coreVars, workletVars>>

ThinkNext ==
    \/ \E prompt \in Prompts : ExecuteDeepThought(prompt)
    \/ \E outcome \in RouteOutcomes : POST(outcome)
    \/ FetchRejects
    \/ FetchResolves
    \/ BackoffElapses

ThinkSpec == Init /\ [][ThinkNext]_vars

(* ======================================================================= *)
(* Pure functions: src/utils/AlgorithmicCore.ts                            *)
(* ======================================================================= *)
\* The link, the store and the services at rest while a pure function runs.
RestOfProgramIdle ==
    /\ LinkActive
    /\ StoreMounted
    /\ PlaybackIdle
    /\ SimIdle
    /\ ThinkIdle
    /\ WorkletIdle
    /\ AppIdle

RECURSIVE StringsOfLen(_, _)
\* The strings of length n over the characters of alphabet.
StringsOfLen(alphabet, n) ==
    IF n = 0 THEN {""}
    ELSE {s \o c : s \in StringsOfLen(alphabet, n - 1), c \in alphabet}

\* The strings of length 0..n over the characters of alphabet.
StringsUpTo(alphabet, n) == UNION {StringsOfLen(alphabet, k) : k \in 0..n}

\* Mutant of Min3: the insertion candidate (the second argument) is left out.
Min3_NoInsertion(x, y, z) == IF x <= z THEN x ELSE z

\* Math.min of three numbers
Min3(x, y, z) ==
    IF x <= y /\ x <= z THEN x ELSE IF y <= z THEN y ELSE z

\* Mutant of SubstitutionCost: letters compared without regard to case.
SubstitutionCost_IgnoreCase(x, y) == IF LowerCaseOf(x) = LowerCaseOf(y) THEN 0 ELSE 1

\* Mutant of SubstitutionCost: every pair of code units costs 1.
SubstitutionCost_Always(x, y) == 1

\* const cost = sourceVector[i - 1] === targetVector[j - 1] ? 0 : 1
SubstitutionCost(x, y) == IF x = y THEN 0 ELSE 1

\* Mutant of FirstRow: the first row is left at zero.
FirstRow_Zero(targetLen) == [k \in 1..(targetLen + 1) |-> 0]

\* matrix[0][j] = j for j in 0..targetLen; cell j is at index j + 1
FirstRow(targetLen) == [k \in 1..(targetLen + 1) |-> k - 1]

RECURSIVE FillRow(_, _, _, _, _)
\* The inner loop for row i: row holds matrix[i][0..j-1], prev is
\* matrix[i-1]; the cell matrix[i][j] is appended until j > targetLen.
FillRow(sourceVector, targetVector, i, prev, row) ==
    LET j == Len(row) IN
    IF j > Len(targetVector) THEN row
    ELSE LET cost == SubstitutionCost(SubSeq(sourceVector, i, i),
                                      SubSeq(targetVector, j, j))
         IN FillRow(sourceVector, targetVector, i, prev,
                    Append(row, Min3(prev[j + 1] + 1, row[j] + 1, prev[j] + cost)))

RECURSIVE FillMatrix(_, _, _, _)
\* The outer loop from row i on (matrix[i] = [i] is the row's first cell);
\* behind the last row: matrix[sourceLen][targetLen].
FillMatrix(sourceVector, targetVector, i, prev) ==
    IF i > Len(sourceVector) THEN prev[Len(targetVector) + 1]
    ELSE FillMatrix(sourceVector, targetVector, i + 1,
                    FillRow(sourceVector, targetVector, i, prev, <<i>>))

\* Mutant of computeLevenshteinDeviation: an empty argument gives 0.
computeLevenshteinDeviation_EmptyIsZero(sourceVector, targetVector) ==
    IF Len(sourceVector) = 0 \/ Len(targetVector) = 0 THEN 0
    ELSE FillMatrix(sourceVector, targetVector, 1, FirstRow(Len(targetVector)))

\* computeLevenshteinDeviation(sourceVector, targetVector)
computeLevenshteinDeviation(sourceVector, targetVector) ==
    IF Len(sourceVector) = 0 THEN Len(targetVector)
    ELSE IF Len(targetVector) = 0 THEN Len(sourceVector)
    ELSE FillMatrix(sourceVector, targetVector, 1, FirstRow(Len(targetVector)))

\* The strings the distance is applied to: all strings up to MaxStringLen
\* over two code units that differ only in case.
LevStrings == StringsUpTo({"a", "A"}, MaxStringLen)

\* Triples with the strings of the unit tests.
LevUnitTests ==
    {<<"kitten", "sitting", "hello">>, <<"cat", "bat", "">>, <<"Hello", "hello", "aA">>,
     <<"kitten", "", "sitting">>, <<"", "test", "hello">>}

\* The argument pairs of the successive calls, for the strings a, b, c drawn:
\* (a, a), (a, b), (b, c), (a, c), (b, a).
LevCalls == <<<<1, 1>>, <<1, 2>>, <<2, 3>>, <<1, 3>>, <<2, 1>>>>

LevInit ==
    /\ RestOfProgramIdle
    /\ coreInput \in (LevStrings \X LevStrings \X LevStrings) \cup LevUnitTests
    /\ coreOutput = <<>>

\* The next call computeLevenshteinDeviation(x, y) of LevCalls
ComputeLevenshteinDeviation ==
    /\ Len(coreOutput) < Len(LevCalls)
    /\ LET call == LevCalls[Len(coreOutput) + 1] IN
       coreOutput' = Append(coreOutput,
           computeLevenshteinDeviation(coreInput[call[1]], coreInput[call[2]]))
    /\ UNCHANGED coreInput
    /\ UNCHANGED <<linkVars, storeVars, appVars, outputClock, playbackVars, simVars,
                   thinkVars, workletVars>>

LevSpec == LevInit /\ [][ComputeLevenshteinDeviation]_vars

(* ----------------------------------------------------------------------- *)
(* Strings and numbers of the text metrics                                 *)
(* ----------------------------------------------------------------------- *)
\* The class \s, as far as the utterances here use it.
IsWhitespace(c) == c = " "

RECURSIVE SplitFrom(_, _, _, _)
\* s.split(/\s+/) from index i on: current is the piece being read, pieces
\* the pieces before it.  Every maximal run of whitespace ends a piece, so a
\* leading or trailing run yields an empty piece and "" yields <<"">>.
SplitFrom(s, i, current, pieces) ==
    IF i > Len(s) THEN Append(pieces, current)
    ELSE IF IsWhitespace(SubSeq(s, i, i))
    THEN IF i > 1 /\ IsWhitespace(SubSeq(s, i - 1, i - 1))
         THEN SplitFrom(s, i + 1, current, pieces)
         ELSE SplitFrom(s, i + 1, "", Append(pieces, current))
    ELSE SplitFrom(s, i + 1, current \o SubSeq(s, i, i), pieces)

SplitOnWhitespace(s) == SplitFrom(s, 1, "", <<>>)

RECURSIVE TrimStart(_)
TrimStart(s) ==
    IF Len(s) > 0 /\ IsWhitespace(SubSeq(s, 1, 1)) THEN TrimStart(SubSeq(s, 2, Len(s)))
    ELSE s

RECURSIVE TrimEnd(_)
TrimEnd(s) ==
    IF Len(s) > 0 /\ IsWhitespace(SubSeq(s, Len(s), Len(s)))
    THEN TrimEnd(SubSeq(s, 1, Len(s) - 1))
    ELSE s

\* String.prototype.trim
Trim(s) == TrimEnd(TrimStart(s))

RECURSIVE KeepLowerCaseLetters(_)
\* w.replace(/[^a-z]/g, '')
KeepLowerCaseLetters(w) ==
    IF Len(w) = 0 THEN ""
    ELSE LET c == SubSeq(w, 1, 1)
             rest == KeepLowerCaseLetters(SubSeq(w, 2, Len(w)))
         IN IF \E i \in 1..Len(LowerCaseLetters) : SubSeq(LowerCaseLetters, i, i) = c
            THEN c \o rest ELSE rest

\* A JavaScript number: NaN, or the value v in the unit of the quantity.
Num(v) == [nan |-> FALSE, v |-> v]
NaN == [nan |-> TRUE, v |-> 0]

\* Math.min(bound, x) and Math.max(bound, x) with a number bound: NaN if x is
MathMin(bound, x) == IF x.nan THEN NaN ELSE IF x.v < bound THEN x ELSE Num(bound)
MathMax(bound, x) == IF x.nan THEN NaN ELSE IF x.v > bound THEN x ELSE Num(bound)

\* x + d for a number d
Plus(x, d) == IF x.nan THEN NaN ELSE Num(x.v + d)

(* ----------------------------------------------------------------------- *)
(* SentimentMatrixCalculator.analyze                                       *)
(* ----------------------------------------------------------------------- *)
\* The lexicon weights, in tenths.
AGGRESSION_LEXICON ==
    [demand |-> 8, must |-> 7, unacceptable |-> 9, final |-> 6, refuse |-> 8,
     insist |-> 7, ridiculous |-> 8, fail |-> 6, hostile |-> 9, now |-> 5,
     immediately |-> 6]

CONCILIATORY_LEXICON ==
    [agree |-> 6, understand |-> 5, collaborate |-> 7, flexible |-> 8, help |-> 5,
     fair |-> 6, together |-> 5, potential |-> 4, perhaps |-> 3, consider |-> 4]

LOGIC_LEXICON ==
    {"because", "therefore", "data", "statistically", "result", "proven",
     "consequently", "analysis", "metrics", "roi", "yield"}

\* The properties every object literal inherits from Object.prototype whose
\* names consist of the letters a-z only.
InheritedKeys == {"constructor"}

\* lexicon[key] on an object literal: the weight, an inherited member (a
\* function), or undefined
PropertyOf(lexicon, key) ==
    IF key \in DOMAIN lexicon THEN [kind |-> "number", v |-> lexicon[key]]
    ELSE IF key \in InheritedKeys THEN [kind |-> "function", v |-> 0]
    ELSE [kind |-> "undefined", v |-> 0]

\* if (lexicon[cleaned]): undefined is falsy, a weight (all are non-zero) and
\* a function are truthy
Truthy(property) == property.kind # "undefined"

\* acc + val * factor where val is lexicon[cleaned]: a function makes it NaN
\* (for valenceSum += val a string that the later multiplication turns to NaN)
AddProperty(acc, property, factor) ==
    IF property.kind = "function" THEN NaN ELSE Plus(acc, property.v * factor)

RECURSIVE LexicalAnalysis(_, _, _)
\* words.forEach from word k on.  aggressionScore in units, valenceSum in
\* tenths, logicScore in units.
LexicalAnalysis(words, k, acc) ==
    IF k > Len(words) THEN acc
    ELSE LET cleaned == KeepLowerCaseLetters(words[k])
             aggr == PropertyOf(AGGRESSION_LEXICON, cleaned)
             conc == PropertyOf(CONCILIATORY_LEXICON, cleaned)
             a1 == IF Truthy(aggr)
                   THEN [acc EXCEPT
                           !.aggressionScore = AddProperty(@, aggr, 10),
                           !.valenceSum = AddProperty(@, aggr, -1)]
                   ELSE acc
             a2 == IF Truthy(conc)
                   THEN [a1 EXCEPT !.valenceSum = AddProperty(@, conc, 1)]
                   ELSE a1
             a3 == IF cleaned \in LOGIC_LEXICON
                   THEN [a2 EXCEPT !.logicScore = @ + 15]
                   ELSE a2
         IN LexicalAnalysis(words, k + 1, a3)

\* SentimentMatrixCalculator.analyze(linguisticArtifact, spectralIntensity,
\* hesitationCount), in exact arithmetic.  spectralIntensity is in
\* hundredths; of the result clarityScore is in hundredths, aggressionIndex
\* and logicDensity in units, emotionalResonanceIndex in 1/2000 and
\* confidenceScore in thousandths.
analyze(linguisticArtifact, spectralIntensity, hesitationCount) ==
    LET lowerText == toLowerCase(linguisticArtifact)
        words == SplitOnWhitespace(lowerText)
        lexical == LexicalAnalysis(words, 1,
                       [aggressionScore |-> Num(0), logicScore |-> 0,
                        valenceSum |-> Num(0)])
        normalizedAggression == MathMin(100, lexical.aggressionScore)
        normalizedLogic == IF lexical.logicScore < 100 THEN lexical.logicScore ELSE 100
        clarity == MathMin(10000, MathMax(0,
                       Num(10000 - 2 * Len(linguisticArtifact) + 30 * normalizedLogic)))
        scaled == IF lexical.valenceSum.nan THEN NaN
                  ELSE Num(lexical.valenceSum.v
                           * (IF Len(words) < 3 THEN 1 ELSE 2)
                           * (100 + 2 * spectralIntensity))
        resonance == IF ~scaled.nan /\ scaled.v < 200 /\ scaled.v > -200
                        /\ spectralIntensity > 20
                     THEN Num(-20 * spectralIntensity)
                     ELSE scaled
        mumbling == IF Len(words) > 0 /\ spectralIntensity < 5 THEN 200 ELSE 0
        confidence == IF normalizedAggression.nan THEN NaN
                      ELSE Num(1000 - 150 * hesitationCount - mumbling
                               + 2 * normalizedLogic + 2 * normalizedAggression.v)
    IN [clarityScore |-> clarity,
        aggressionIndex |-> normalizedAggression,
        logicDensity |-> Num(normalizedLogic),
        emotionalResonanceIndex |-> MathMax(-2000, MathMin(2000, resonance)),
        confidenceScore |-> MathMax(0, MathMin(1000, confidence))]

\* Utterances analysed.
AnalyzeTexts ==
    {"", "I agree", "We demand it now because the data is proven",
     "Unacceptable! Hostile, ridiculous: I refuse and I insist, you must",
     "The constructor failed", "perhaps", "um  well ", "I agree "}

\* Acoustic intensities in [0, 1], in hundredths.
SpectralIntensities == {0, 4, 25, 100}

AnalyzeInit ==
    /\ RestOfProgramIdle
    /\ coreInput \in AnalyzeTexts \X SpectralIntensities \X (0..MaxHesitations)
    /\ coreOutput = <<>>

\* SentimentMatrixCalculator.analyze(text, intensity, hesitationCount)
Analyze ==
    /\ coreOutput = <<>>
    /\ coreOutput' = <<analyze(coreInput[1], coreInput[2], coreInput[3])>>
    /\ UNCHANGED coreInput
    /\ UNCHANGED <<linkVars, storeVars, appVars, outputClock, playbackVars, simVars,
                   thinkVars, workletVars>>

AnalyzeSpec == AnalyzeInit /\ [][Analyze]_vars

(* ----------------------------------------------------------------------- *)
(* calculateVerbalVelocityScore                                            *)
(* ----------------------------------------------------------------------- *)
HesitationMarkers ==
    {"um", "uh", "like", "actually", "basically", "sort of", "mean", "you know"}

\* The quotient num / den, kept exact.
Ratio(num, den) == [num |-> num, den |-> den]

RECURSIVE CountHesitations(_, _)
\* words.forEach from word k on
CountHesitations(words, k) ==
    IF k > Len(words) THEN 0
    ELSE (IF KeepLowerCaseLetters(toLowerCase(words[k])) \in HesitationMarkers
          THEN 1 ELSE 0) + CountHesitations(words, k + 1)

\* calculateVerbalVelocityScore(transcript, durationSeconds)
calculateVerbalVelocityScore(transcript, durationSeconds) ==
    IF durationSeconds <= 0 THEN [velocity |-> Ratio(0, 1), hesitationCount |-> 0]
    ELSE LET words == SplitOnWhitespace(Trim(transcript))
         IN [velocity |-> Ratio(Len(words) * 60, durationSeconds),
             hesitationCount |-> CountHesitations(words, 1)]

\* Transcripts scored.
VelocityTexts ==
    {"", "   ", "hello", " I agree ", "um  well ", "We demand it now",
     "you know, like, actually", "a b c d e f"}

VelocityInit ==
    /\ RestOfProgramIdle
    /\ coreInput \in VelocityTexts \X ((-1)..MaxSeconds)
    /\ coreOutput = <<>>

\* calculateVerbalVelocityScore(text, seconds)
CalculateVerbalVelocityScore ==
    /\ coreOutput = <<>>
    /\ coreOutput' = <<calculateVerbalVelocityScore(coreInput[1], coreInput[2])>>
    /\ UNCHANGED coreInput
    /\ UNCHANGED <<linkVars, storeVars, appVars, outputClock, playbackVars, simVars,
                   thinkVars, workletVars>>

VelocitySpec == VelocityInit /\ [][CalculateVerbalVelocityScore]_vars

(* ======================================================================= *)
(* Quantisation: createBlob (src/hooks/useVoiceStreamProcessor.ts) and     *)
(* AudioProcessor.floatTo16BitPCM (src/public/audio-processor.worklet.js)  *)
(* ======================================================================= *)
\* Float samples, in thousandths: inside, at and beyond the range [-1, 1].
Samples == {-1500, -1000, -999, -500, -1, 0, 1, 500, 999, 1000, 1500}

\* The integer part of num / den (den > 0), rounding toward zero
Truncate(num, den) == IF num >= 0 THEN num \div den ELSE -((-num) \div den)

\* Storing the number num / den in an Int16Array element: the integer part,
\* modulo 2^16, read as a signed 16-bit value
ToInt16(num, den) ==
    LET m == Truncate(num, den) % 65536 IN IF m >= 32768 THEN m - 65536 ELSE m

\* createBlob, one sample: int16[i] = data[i] * 32768
CreateBlobSample(sample) == ToInt16(sample * 32768, 1000)

\* floatTo16BitPCM, one sample: s = Math.max(-1, Math.min(1, x));
\* int16[i] = s < 0 ? s * 0x8000 : s * 0x7FFF
FloatTo16BitPCMSample(sample) ==
    LET s == IF sample < -1000 THEN -1000 ELSE IF sample > 1000 THEN 1000 ELSE sample
    IN IF s < 0 THEN ToInt16(s * 32768, 1000) ELSE ToInt16(s * 32767, 1000)

\* createBlob(data): the envelope, its data kept as the Int16Array that the
\* base64 text encodes
createBlob(data) ==
    [int16 |-> [i \in 1..Len(data) |-> CreateBlobSample(data[i])],
     mimeType |-> "audio/pcm;rate=16000"]

\* floatTo16BitPCM(float32Array)
floatTo16BitPCM(float32Array) ==
    [i \in 1..Len(float32Array) |-> FloatTo16BitPCMSample(float32Array[i])]

\* The blocks of 1..MaxBlockLen samples.
SampleBlocks == UNION {[1..n -> Samples] : n \in 1..MaxBlockLen}

QuantInit ==
    /\ RestOfProgramIdle
    /\ coreInput \in SampleBlocks
    /\ coreOutput = <<>>

\* The hook's capture path encodes the block: createBlob(inputData)
CreateBlob ==
    /\ \A n \in 1..Len(coreOutput) : coreOutput[n].path # "createBlob"
    /\ coreOutput' = Append(coreOutput,
          [path |-> "createBlob", int16 |-> createBlob(coreInput).int16])
    /\ UNCHANGED coreInput
    /\ UNCHANGED <<linkVars, storeVars, appVars, outputClock, playbackVars, simVars,
                   thinkVars, workletVars>>

\* The worklet encoder encodes the block: floatTo16BitPCM(buffer)
FloatTo16BitPCM ==
    /\ \A n \in 1..Len(coreOutput) : coreOutput[n].path # "worklet"
    /\ coreOutput' = Append(coreOutput,
          [path |-> "worklet", int16 |-> floatTo16BitPCM(coreInput)])
    /\ UNCHANGED coreInput
    /\ UNCHANGED <<linkVars, storeVars, appVars, outputClock, playbackVars, simVars,
                   thinkVars, workletVars>>

QuantNext == CreateBlob \/ FloatTo16BitPCM

QuantSpec == QuantInit /\ [][QuantNext]_vars

(* ======================================================================= *)
(* AudioProcessor.process (src/public/audio-processor.worklet.js)          *)
(* ======================================================================= *)
\* The samples of the input blocks, in thousandths.
BlockSamples == {-1000, 300}

\* inputs[0][0]: a channel of 0..MaxBlockLen samples.
InputChannels == UNION {[1..n -> BlockSamples] : n \in 0..MaxBlockLen}

\* calculateRMS(data): Math.sqrt(sum / data.length), kept as the fraction
\* under the root (0 / 0, which is NaN, for an empty channel)
RECURSIVE SumOfSquares(_, _)
SumOfSquares(data, i) ==
    IF i > Len(data) THEN 0 ELSE data[i] * data[i] + SumOfSquares(data, i + 1)

calculateRMS(data) == [sqrtOf |-> [num |-> SumOfSquares(data, 1), den |-> Len(data)]]

\* this.bufferIndex >= this.bufferSize
BufferIsFull_Late(index) == index > bufferSize
BufferIsFull(index) == index >= bufferSize

\* this.buffer[index] = sample on a Float32Array (index counted from 0): a
\* store beyond the array's length is ignored
StoreSample(buf, index, sample) ==
    IF index + 1 \in DOMAIN buf THEN [buf EXCEPT ![index + 1] = sample] ELSE buf

\* The buffering loop of process, from the i-th sample of the channel on.
\* w holds buffer, bufferIndex and the messages posted.
RECURSIVE BufferAudio(_, _, _)
BufferAudio(w, inputChannel, i) ==
    IF i > Len(inputChannel) THEN w
    ELSE LET stored == StoreSample(w.buffer, w.bufferIndex, inputChannel[i])
             index == w.bufferIndex + 1
         IN IF BufferIsFull(index)
            THEN BufferAudio(
                   [buffer |-> stored, bufferIndex |-> 0,
                    posted |-> Append(w.posted,
                       [type |-> "audio", int16 |-> floatTo16BitPCM(stored),
                        mimeType |-> "audio/pcm;rate=16000"])],
                   inputChannel, i + 1)
            ELSE BufferAudio([w EXCEPT !.buffer = stored, !.bufferIndex = index],
                             inputChannel, i + 1)

WorkletInit == LinkActive /\ StoreMounted /\ AppEnvInit

WorkletRest ==
    UNCHANGED <<linkVars, storeVars, appVars, outputClock, playbackVars, simVars,
                thinkVars, coreVars>>

Calls == Len(SelectSeq(portMessages, LAMBDA m : m.type = "rms"))

\* process(inputs, ...) with a channel in inputs[0].  A call with no channel
\* there buffers and posts nothing: it is a stuttering step.
Process(inputChannel) ==
    /\ Calls < MaxProcessCalls
    /\ LET w == BufferAudio(
                [buffer |-> buffer, bufferIndex |-> bufferIndex,
                 posted |-> Append(portMessages,
                    [type |-> "rms", value |-> calculateRMS(inputChannel)])],
                inputChannel, 1)
       IN /\ buffer' = w.buffer
          /\ bufferIndex' = w.bufferIndex
          /\ portMessages' = w.posted
    /\ inputSamples' = inputSamples \o inputChannel
    /\ WorkletRest

WorkletNext == \E inputChannel \in InputChannels : Process(inputChannel)

WorkletSpec == WorkletInit /\ [][WorkletNext]_vars

(* ======================================================================= *)
(* Claims                                                                  *)
(* ======================================================================= *)
OutstandingConnects == BagCardinality(pendingMedia) + CountStatus("connecting")
NoSessionWired == \A s \in BagToSet(sessions) : ~s.wired

\* C1: after exactly MAX_RETRY_ATTEMPTS consecutive onerror events with no
\* successful open in between -- the failure of an attempt that two failed
\* attempts precede in its retry chain -- the link is in its terminal state:
\* connectionError is CIRCUIT_BREAKER_OPEN, isConnectionActive is false and no
\* retry timer is pending.
C1_BreakerOpensAfterMaxFailures ==
    [][\A s \in BagToSet(sessions) :
          (s.chain = MAX_RETRY_ATTEMPTS - 1 /\ OnError(s))
          => (/\ connectionError'.kind = "CIRCUIT_BREAKER_OPEN"
              /\ ~isConnectionActive'
              /\ NoTimerPending')]_vars

\* C2: when severNeuralLink has run after a session was requested and before
\* its onopen, and no initiate has been called since, that onopen does not
\* make the link active and installs no capture wiring.
C2_SeverDiscardsLateOpen ==
    [][\A s \in BagToSet(sessions) :
          (s.severed /\ explicitlySevered /\ OnOpen(s))
          => (~isConnectionActive' /\ NoSessionWired')]_vars

\* C3: once severNeuralLink has run, no retry timer is pending until the next
\* explicit initiateNeuralLink.
C3_NoRetryAfterSever == explicitlySevered => NoTimerPending

\* C4: at most one outstanding connect attempt and at most one open remote
\* session in every reachable state.
C4_SingleAttemptSingleSession ==
    /\ OutstandingConnects <= 1
    /\ CountStatus("open") <= 1

\* C5: retryAttempt never exceeds MAX_RETRY_ATTEMPTS.
C5_RetryCounterBounded == retryAttempt <= MAX_RETRY_ATTEMPTS

SeveredState ==
    /\ NoTimerPending
    /\ retryAttempt = 0
    /\ ~streamRef
    /\ ~inputAudioContextRef
    /\ ~outputAudioContextRef
    /\ ~isConnectionActive
    /\ connectionError = NoError

\* C6: severNeuralLink from any state leaves no pending retry timer, retry
\* count 0, the capture stream and both audio contexts released,
\* isConnectionActive false and connectionError null.
C6_SeverLeavesCleanState == [][SeverNeuralLink => SeveredState']_vars

\* C7: while attempts remain, a transport error schedules a retry whose delay
\* is 2^attempt seconds, attempt being the number of consecutive failed
\* attempts before this one (1 s, 2 s, 4 s).
C7_BackoffIsTwoToTheAttempt ==
    [][\A s \in BagToSet(sessions) :
          (OnError(s) /\ s.chain < MAX_RETRY_ATTEMPTS)
          => (/\ retryTimeoutRef'.pending
              /\ retryTimeoutRef'.delayMs = (2 ^ s.chain) * 1000)]_vars

\* C8: for every audio block captured while its session is open an amplitude
\* event is emitted, and the payload is sent only if the capture-active flag
\* is true when the block is captured.
C8_PayloadGatedByFlag ==
    (lastBlock.valid /\ lastBlock.sessionOpen)
    => (lastBlock.amplitude /\ (lastBlock.sent => lastBlock.flag))

Min(a, b) == IF a < b THEN a ELSE b

\* The last Min(n, Len(h)) elements of h, in order.
LastOf(h, n) ==
    LET k == Min(n, Len(h)) IN [i \in 1..k |-> h[Len(h) - k + i]]

\* C9: the EntropyMetric window equals the last min(n, 20) metrics appended
\* since the last clear, in insertion order; its length never exceeds 20.
C9_WindowIsLastTwenty ==
    /\ entropyMetrics = LastOf(appendedMetrics, WINDOW_TAIL + 1)
    /\ Len(entropyMetrics) <= WINDOW_TAIL + 1

\* More than 20 appends were made and the oldest metric has been evicted.
C9_Witness ==
    /\ Len(appendedMetrics) > WINDOW_TAIL + 1
    /\ Len(entropyMetrics) = WINDOW_TAIL + 1
    /\ entropyMetrics[1].timestamp > appendedMetrics[1].timestamp

\* C10: between clears the TransmissionVector log is append-only -- it is the
\* sequence of the vectors added since the last clear, in the order they were
\* added -- and its timestamps are non-decreasing in log order.
C10_LogAppendOnlyMonotonic ==
    /\ transmissionVectors = loggedVectors
    /\ \A i \in 1..(Len(transmissionVectors) - 1) :
          transmissionVectors[i].timestamp <= transmissionVectors[i + 1].timestamp

\* A response was appended after later transmits and a clock advance: the log
\* holds an agent vector behind an operator vector with a later timestamp.
C10_Witness ==
    /\ Len(transmissionVectors) >= 3
    /\ \E i \in 1..(Len(transmissionVectors) - 1) :
          /\ transmissionVectors[i].origin = "OPERATOR"
          /\ transmissionVectors[i + 1].origin = "SYNTHETIC_AGENT"
          /\ transmissionVectors[i].timestamp < transmissionVectors[i + 1].timestamp

\* C11: a scenario change to an id of the registry, and resetSimulation, each
\* leave the TransmissionVector log and the EntropyMetric window empty; a
\* scenario change to an id that is not in the registry changes neither the
\* active scenario nor the log nor the window.
C11_ChangeAndResetClear ==
    [][/\ \A id \in ScenarioIds \cup {0} :
             HandleScenarioChange(id)
             => IF id \in ScenarioIds
                THEN transmissionVectors' = <<>> /\ entropyMetrics' = <<>>
                ELSE UNCHANGED <<activeScenario, transmissionVectors, entropyMetrics>>
       /\ ResetFromAnalysis
             => (transmissionVectors' = <<>> /\ entropyMetrics' = <<>>)]_vars

\* The scenario was changed from 1 to 2 while the response to a transmit made
\* under scenario 1 was still due: the log that held that transmit is empty.
C11_Witness ==
    /\ activeScenario = 2
    /\ transmissionVectors = <<>>
    /\ entropyMetrics = <<>>
    /\ \E r \in BagToSet(pendingResponses) : r.kind = "offline" /\ r.scenario = 1

\* C12: two buffers enqueued back-to-back, the cursor not behind the clock at
\* the second enqueue, start at t0 and t0 + d1 (no gap, no overlap); a buffer
\* enqueued with the cursor behind the playback clock starts at the clock.
C12_BackToBackAndSnap ==
    /\ \A i \in 1..(Len(scheduled) - 1) :
          scheduled[i + 1].clock <= scheduled[i].start + scheduled[i].duration
          => scheduled[i + 1].start = scheduled[i].start + scheduled[i].duration
    /\ \A i \in 1..Len(scheduled) :
          scheduled[i].cursor < scheduled[i].clock
          => scheduled[i].start = scheduled[i].clock

\* The first buffer was enqueued with the cursor behind the clock, the second
\* one, of another duration, back-to-back with it.
C12_Witness ==
    /\ Len(scheduled) >= 2
    /\ scheduled[1].cursor < scheduled[1].clock
    /\ scheduled[2].clock <= scheduled[1].start + scheduled[1].duration
    /\ scheduled[2].start = scheduled[1].start + scheduled[1].duration
    /\ scheduled[1].duration # scheduled[2].duration

\* The intervals [start, start + duration) of the scheduled buffers do not
\* overlap and each buffer starts no earlier than the clock at its enqueue.
IntervalsDisjoint ==
    /\ \A i, j \in 1..Len(scheduled) :
          i # j => \/ scheduled[i].start + scheduled[i].duration <= scheduled[j].start
                   \/ scheduled[j].start + scheduled[j].duration <= scheduled[i].start
    /\ \A i \in 1..Len(scheduled) : scheduled[i].start >= scheduled[i].clock

\* C13: for any interleaving of inbound audio messages and decode
\* completions the scheduled intervals are pairwise non-overlapping, each
\* buffer starts no earlier than the playback clock at its enqueue, and the
\* cursor never decreases.
C13_CursorUpdateAtomic ==
    []IntervalsDisjoint /\ [][nextStartTimeRef' >= nextStartTimeRef]_vars

\* Three buffers were scheduled while another decode was still awaited, the
\* second after a silence (its start is later than the end of the first).
C13_Witness ==
    /\ Len(scheduled) = 3
    /\ pendingDecodes # EmptyBag
    /\ scheduled[2].start > scheduled[1].start + scheduled[1].duration

\* The id is one of the scenario database.
InRegistry(id) == \E i \in 1..Len(SCENARIO_DB) : SCENARIO_DB[i].id = id

\* The rules of the scenario with this id, in definition order.
RulesOf(id) ==
    SCENARIO_DB[CHOOSE i \in 1..Len(SCENARIO_DB) : SCENARIO_DB[i].id = id].probabilityManifolds

\* The rule's trigger pattern matches the lower-cased utterance.
RuleMatches(rule, utterance) == RegExpTest(rule.triggerCondition, toLowerCase(utterance))

\* C14: processOfflineSimulation returns the response of the first rule, in
\* definition order, whose trigger pattern matches the lower-cased utterance,
\* also when a later rule matches too, prefixed with '[SIMULATION_MODE]: ',
\* and tests no rule behind it.
C14_FirstMatchWins ==
    \A n \in 1..Len(simLog) :
        LET call == simLog[n] IN
        InRegistry(call.scenarioId) =>
            \A k \in 1..Len(RulesOf(call.scenarioId)) :
                (/\ RuleMatches(RulesOf(call.scenarioId)[k], call.userPayload)
                 /\ \A j \in 1..(k - 1) :
                       ~RuleMatches(RulesOf(call.scenarioId)[j], call.userPayload))
                => /\ call.result = "[SIMULATION_MODE]: "
                                       \o RulesOf(call.scenarioId)[k].syntheticResponse
                   /\ call.tested = k

\* A call whose utterance matches the second rule ("agree", which comes first
\* in the text) and the first rule ("reject", after lower-casing) got the
\* response of the first rule.
C14_Witness ==
    \E n \in 1..Len(simLog) :
        /\ simLog[n].scenarioId = "SCN-ALPHA-01"
        /\ simLog[n].userPayload = "I AGREE to REJECT"
        /\ RuleMatches(RulesOf("SCN-ALPHA-01")[1], simLog[n].userPayload)
        /\ RuleMatches(RulesOf("SCN-ALPHA-01")[2], simLog[n].userPayload)
        /\ simLog[n].result = "[SIMULATION_MODE]: "
                                  \o RulesOf("SCN-ALPHA-01")[1].syntheticResponse

\* C15: processOfflineSimulation returns the fixed default response, which
\* carries the simulation-mode marker, exactly when the scenario exists and
\* no rule's trigger pattern matches the utterance.
C15_DefaultIffNoMatch ==
    /\ SubSeq(SimulationMiss, 1, Len("[SIMULATION_MODE]: ")) = "[SIMULATION_MODE]: "
    /\ \A n \in 1..Len(simLog) :
          LET call == simLog[n] IN
          (call.result = "[SIMULATION_MODE]: I am not compelled by that argument. Please restructure your leverage.")
          <=> (/\ InRegistry(call.scenarioId)
               /\ \A k \in 1..Len(RulesOf(call.scenarioId)) :
                     ~RuleMatches(RulesOf(call.scenarioId)[k], call.userPayload))

\* A call for a scenario of the registry with an utterance no rule matches,
\* and a call whose upper-case utterance matches only after lower-casing.
C15_Witness ==
    /\ Len(simLog) = 2
    /\ simLog[1].scenarioId = "SCN-BETA-04"
    /\ simLog[1].userPayload = "Maybe later"
    /\ simLog[1].result = SimulationMiss
    /\ simLog[2].scenarioId = "SCN-BETA-04"
    /\ simLog[2].userPayload = "Stock"
    /\ simLog[2].result # SimulationMiss

\* C16: a call with a scenario id that is not in the registry returns the
\* sentinel 'ERROR: SCENARIO_DATA_CORRUPTION', tests no rule and leaves the
\* registry as it was.
C16_UnknownScenarioSentinel ==
    /\ Registry(scenarioRegistry) = SCENARIO_DB
    /\ \A n \in 1..Len(simLog) :
          ~InRegistry(simLog[n].scenarioId)
          => /\ simLog[n].result = "ERROR: SCENARIO_DATA_CORRUPTION"
             /\ simLog[n].tested = 0

\* A call with an absent id returned the sentinel and the call after it, for
\* a scenario of the registry, was answered from that scenario's rules.
C16_Witness ==
    /\ Len(simLog) = 2
    /\ simLog[1].scenarioId = "SCN-OMEGA-00"
    /\ simLog[1].result = ScenarioDataCorruption
    /\ simLog[2].scenarioId = "SCN-GAMMA-09"
    /\ simLog[2].userPayload = "the schedule slips"
    /\ simLog[2].result = "[SIMULATION_MODE]: We can prioritize your shipment if you agree to a 10% premium."

\* C17: a manual transmit while the link is not active, or while a connection
\* error is set, is queued for the offline engine with the active scenario and
\* never for the remote service; a transmit while the link is active and
\* error-free is queued for the remote service and never for the offline
\* engine; and what arrives in the log is the answer of the engine it was
\* queued for.
C17_OfflineWhenLinkDown ==
    [][/\ \A input \in Inputs :
             HandleManualTransmit(input) =>
                 LET added == pendingResponses' (-) pendingResponses IN
                 IF ~isConnectionActive \/ connectionError # NoError
                 THEN added = One([kind |-> "offline", scenario |-> activeScenario,
                                   input |-> input])
                 ELSE added = One([kind |-> "remote", scenario |-> activeScenario,
                                   input |-> input])
       /\ \A r \in BagToSet(pendingResponses) :
             ResponseArrives(r) =>
                 transmissionVectors'[Len(transmissionVectors')].payload =
                     IF r.kind = "offline"
                     THEN processOfflineSimulation(SCENARIO_DB, SCENARIO_DB[r.scenario].id,
                                                   r.input)
                     ELSE "[REMOTE]: " \o r.input]_vars

\* With the API key missing the connect attempt has set a connection error,
\* and the utterance typed after it was answered by the rule of the first
\* scenario.
C17_Witness ==
    /\ ~isConnectionActive
    /\ connectionError = ApiKeyMissing
    /\ Len(loggedVectors) = 2
    /\ loggedVectors[1].origin = "OPERATOR"
    /\ loggedVectors[1].payload = "No offer"
    /\ loggedVectors[2].origin = "SYNTHETIC_AGENT"
    /\ loggedVectors[2].payload = "[SIMULATION_MODE]: Your rejection is noted, but the market cap suggests you have no leverage. Explain your liquidity position."

\* C18: executeDeepThought makes at most MAX_RETRY_ATTEMPTS (3) request
\* attempts per call; a call all of whose attempts failed resolved to
\* 'CIRCUIT_BREAKER_ACTIVATED: UNABLE_TO_PROCESS_THOUGHT_PATTERN'; and every
\* settled call resolved to a string: the response text, the empty-response
\* marker or the breaker sentinel.
C18_AtMostThreeAttemptsThenSentinel ==
    /\ thought.fetches <= 3
    /\ \A n \in 1..Len(thoughtLog) :
          LET call == thoughtLog[n] IN
          /\ call.fetches <= 3
          /\ call.result \in {CachedText, "DATA_CORRUPTION_EMPTY_RESPONSE",
                               "CIRCUIT_BREAKER_ACTIVATED: UNABLE_TO_PROCESS_THOUGHT_PATTERN"}
          /\ call.failures = call.fetches
             <=> call.result = "CIRCUIT_BREAKER_ACTIVATED: UNABLE_TO_PROCESS_THOUGHT_PATTERN"
          /\ call.failures = call.fetches => call.fetches = 3

\* A call whose three attempts failed settled with the sentinel, and the call
\* after it settled with the response text after one failed attempt.
C18_Witness ==
    /\ Len(thoughtLog) = 2
    /\ thoughtLog[1].fetches = 3
    /\ thoughtLog[1].failures = 3
    /\ thoughtLog[1].result = CircuitBreakerActivated
    /\ thoughtLog[2].fetches = 2
    /\ thoughtLog[2].failures = 1
    /\ thoughtLog[2].result = CachedText

\* C19: a request with an empty prompt, answered with HTTP 400 'Prompt is
\* required', reaches neither the cache lookup nor the remote model, and the
\* client makes exactly one attempt for it.
C19_ValidationErrorNotRetried ==
    /\ (thought.prompt = "" /\ thought.response.status = 400)
       => /\ thought.response.error = "Prompt is required"
          /\ thought.cacheLookups = 0
          /\ thought.modelCalls = 0
          /\ thought.fetches = 1
    /\ \A n \in 1..Len(thoughtLog) :
          (thoughtLog[n].prompt = "" /\ thoughtLog[n].lastStatus = 400)
          => /\ thoughtLog[n].cacheLookups = 0
             /\ thoughtLog[n].modelCalls = 0
             /\ thoughtLog[n].fetches = 1

\* The step is an initiateNeuralLink that threw before its first suspension:
\* with the API key present it neither awaits the capture device nor requests
\* a session.
InitiateThrew == apiKey /\ sessions' = sessions /\ pendingMedia' = pendingMedia

\* The failure handling leaves the retry machinery alone: no timer is added,
\* no session is requested, the link is not active.
NothingRetried ==
    /\ PendingTimers' <= PendingTimers
    /\ ~(retryTimeoutRef'.pending /\ retryTimeoutRef' # retryTimeoutRef)
    /\ sessions' = sessions
    /\ sessionRef' = sessionRef
    /\ pendingMedia' \sqsubseteq pendingMedia
    /\ ~isConnectionActive'

\* C20: a configuration error on connect (the API key is missing, the capture
\* device is refused, or the initialisation throws) is put in connectionError
\* by the step that meets it, and that step schedules no retry timer, leaves
\* the retry counter alone, requests no session and leaves the link not
\* active; without an API key there is never a session, a timer or a retry.
C20_ConfigurationErrorNotRetried ==
    /\ [](~apiKey => /\ sessions = EmptyBag
                     /\ NoTimerPending
                     /\ pendingMedia = EmptyBag
                     /\ retryAttempt = 0
                     /\ ~isConnectionActive)
    /\ [][/\ (~apiKey /\ ManualInitiate)
             => /\ connectionError' = ApiKeyMissing
                /\ retryAttempt' = retryAttempt
                /\ NothingRetried
          /\ (InitiateThrew /\ ManualInitiate)
             => /\ connectionError' = InitializationFailure
                /\ retryAttempt' = retryAttempt
                /\ NothingRetried
          /\ \A c \in BagToSet(pendingMedia) :
                MediaReject(c)
                => /\ connectionError' = InitializationFailure
                   /\ retryAttempt' = retryAttempt
                   /\ NothingRetried
          /\ (/\ InitiateThrew
              /\ TimerFire \/ \E t \in BagToSet(orphanTimers) : OrphanTimerFire(t))
             => /\ connectionError' = InitializationFailure
                /\ NothingRetried]_vars

\* The capture device was refused on the first connect: the contexts exist,
\* no stream was acquired, the error is shown, and nothing is pending.
C20_Witness ==
    /\ apiKey
    /\ connectionError = InitializationFailure
    /\ ~isConnectionActive
    /\ inputAudioContextRef
    /\ ~streamRef
    /\ pendingMedia = EmptyBag
    /\ sessions = EmptyBag
    /\ NoTimerPending
    /\ retryAttempt = 0
    /\ ~sessionRef

\* The classic edit distance of a and b: the distance of two prefixes is the
\* length of one if the other is empty, and else the least of deleting,
\* inserting and substituting (free when the code units are equal).
EditDistance(a, b) ==
    LET d[i \in 0..Len(a), j \in 0..Len(b)] ==
            IF i = 0 THEN j
            ELSE IF j = 0 THEN i
            ELSE LET same == SubSeq(a, i, i) = SubSeq(b, j, j)
                     del == d[i - 1, j] + 1
                     ins == d[i, j - 1] + 1
                     sub == d[i - 1, j - 1] + (IF same THEN 0 ELSE 1)
                 IN IF del <= ins /\ del <= sub THEN del
                    ELSE IF ins <= sub THEN ins ELSE sub
    IN d[Len(a), Len(b)]

\* The value returned for the call (x, y) of LevCalls, once it was made.
LevDone(n) == Len(coreOutput) >= n

\* C21: computeLevenshteinDeviation(a, b) is the classic edit distance with
\* unit costs, compared case-sensitively code unit by code unit; and
\* ('kitten','sitting') = 3, ('cat','bat') = 1, ('Hello','hello') = 1.
C21_IsEditDistance ==
    \A n \in 1..Len(coreOutput) :
        LET x == coreInput[LevCalls[n][1]]
            y == coreInput[LevCalls[n][2]]
        IN /\ coreOutput[n] = EditDistance(x, y)
           /\ (x = "kitten" /\ y = "sitting") => coreOutput[n] = 3
           /\ (x = "cat" /\ y = "bat") => coreOutput[n] = 1
           /\ (x = "Hello" /\ y = "hello") => coreOutput[n] = 1

\* The three examples were computed: a = kitten, b = sitting; and, in
\* another behaviour, Hello and hello.
C21_Witness ==
    /\ LevDone(4)
    /\ coreInput = <<"Hello", "hello", "aA">>
    /\ coreOutput[2] = 1
    /\ coreOutput[3] = 5

\* C22: for every string s, computeLevenshteinDeviation(s, s) = 0.
C22_IdenticalIsZero ==
    /\ LevDone(1) => coreOutput[1] = 0
    /\ \A n \in 1..Len(coreOutput) :
          coreInput[LevCalls[n][1]] = coreInput[LevCalls[n][2]] => coreOutput[n] = 0

\* The distance of a non-empty string to itself was computed.
C22_Witness ==
    /\ LevDone(1)
    /\ coreInput[1] = "aAa"
    /\ coreOutput[1] = 0

\* C23: for every string s, computeLevenshteinDeviation('', s) = length(s)
\* and computeLevenshteinDeviation(s, '') = length(s).
C23_EmptyGivesLength ==
    \A n \in 1..Len(coreOutput) :
        LET x == coreInput[LevCalls[n][1]]
            y == coreInput[LevCalls[n][2]]
        IN /\ x = "" => coreOutput[n] = Len(y)
           /\ y = "" => coreOutput[n] = Len(x)

\* Both orders were computed with a non-empty string: ('', sitting) = 7 as
\* the call (b, c) and (kitten, '') = 6 as the call (a, b).
C23_Witness ==
    /\ LevDone(3)
    /\ coreInput = <<"kitten", "", "sitting">>
    /\ coreOutput[2] = 6
    /\ coreOutput[3] = 7

\* C24: for any three strings a, b, c, the distance (a, c) is at most the
\* distance (a, b) plus the distance (b, c).
C24_TriangleInequality ==
    LevDone(4) => coreOutput[4] <= coreOutput[2] + coreOutput[3]

\* Three different non-empty strings where the inequality is strict:
\* (kitten, hello) <= (kitten, sitting) + (sitting, hello).
C24_Witness ==
    /\ LevDone(4)
    /\ coreInput = <<"kitten", "sitting", "hello">>
    /\ coreOutput[2] = 3
    /\ coreOutput[4] < coreOutput[2] + coreOutput[3]

\* The number is not NaN and lies in [lo, hi].
InRange(x, lo, hi) == ~x.nan /\ lo <= x.v /\ x.v <= hi

\* C25: for every utterance, every intensity in [0,1] and every hesitation
\* count >= 0, analyze returns confidenceScore in [0,1],
\* emotionalResonanceIndex in [-1,1], and aggressionIndex, logicDensity and
\* clarityScore each in [0,100].
C25_ScoresInRange ==
    \A n \in 1..Len(coreOutput) :
        /\ InRange(coreOutput[n].confidenceScore, 0, 1000)
        /\ InRange(coreOutput[n].emotionalResonanceIndex, -2000, 2000)
        /\ InRange(coreOutput[n].aggressionIndex, 0, 100)
        /\ InRange(coreOutput[n].logicDensity, 0, 100)
        /\ InRange(coreOutput[n].clarityScore, 0, 10000)

\* The number of whitespace-delimited words of s: the positions where a
\* word begins.
WordCount(s) ==
    Cardinality({i \in 1..Len(s) :
                    /\ SubSeq(s, i, i) # " "
                    /\ (i = 1 \/ SubSeq(s, i - 1, i - 1) = " ")})

\* C26: verbalVelocity = (number of whitespace-delimited words / elapsed
\* seconds) x 60 when the seconds are positive, an empty or whitespace-only
\* utterance counting 0 words; and 0 when the seconds are not positive.
C26_VelocityIsWordsPerMinute ==
    \A n \in 1..Len(coreOutput) :
        LET velocity == coreOutput[n].velocity IN
        IF coreInput[2] > 0
        THEN velocity.num * coreInput[2] = WordCount(coreInput[1]) * 60 * velocity.den
        ELSE velocity.num = 0

\* The 16-bit value the sample (in thousandths) is to be quantised to: clamped
\* to [-1, 1], positive values scaled by 32767 and negative ones by 32768.
Quantized(sample) ==
    LET s == IF sample < -1000 THEN -1000 ELSE IF sample > 1000 THEN 1000 ELSE sample
        scaled == IF s < 0 THEN s * 32768 ELSE s * 32767
    IN IF scaled >= 0 THEN scaled \div 1000 ELSE -((-scaled) \div 1000)

\* C27: every sample of every outbound envelope, on the createBlob path as
\* on the worklet encoder, is the clamped and asymmetrically scaled value:
\* it keeps the sample's sign and never wraps around.
C27_QuantizationSaturates ==
    \A n \in 1..Len(coreOutput) :
        \A i \in 1..Len(coreInput) :
            /\ coreOutput[n].int16[i] = Quantized(coreInput[i])
            /\ coreInput[i] > 0 => coreOutput[n].int16[i] >= 0
            /\ coreInput[i] < 0 => coreOutput[n].int16[i] <= 0

\* The audio envelopes posted so far, in order
AudioEnvelopes == SelectSeq(portMessages, LAMBDA m : m.type = "audio")

RECURSIVE EnvelopeStream(_, _)
EnvelopeStream(envelopes, n) ==
    IF n > Len(envelopes) THEN <<>>
    ELSE envelopes[n].int16 \o EnvelopeStream(envelopes, n + 1)

\* C28: after any sequence of input blocks the write index is in
\* 0..bufferSize-1, the number of envelopes is floor(samples / bufferSize),
\* the envelope stream is the encoded input, sample by sample and in order,
\* and the samples not yet emitted are the ones waiting in the buffer.
C28_BufferingEmitsEveryFullBuffer ==
    LET total == Len(inputSamples)
        emitted == Len(AudioEnvelopes) * bufferSize
    IN /\ bufferIndex \in 0..(bufferSize - 1)
       /\ Len(AudioEnvelopes) = total \div bufferSize
       /\ \A n \in 1..Len(AudioEnvelopes) : Len(AudioEnvelopes[n].int16) = bufferSize
       /\ EnvelopeStream(AudioEnvelopes, 1) =
             floatTo16BitPCM(SubSeq(inputSamples, 1, emitted))
       /\ bufferIndex = total - emitted
       /\ \A k \in 1..bufferIndex : buffer[k] = inputSamples[emitted + k]

\* C28 witness: one block carried the count past the capacity twice, with a
\* sample left over in the buffer, and a later block was processed.
C28_Witness ==
    /\ Len(AudioEnvelopes) >= 3
    /\ bufferIndex = 1
    /\ \E n \in 1..(Len(portMessages) - 2) :
          /\ portMessages[n].type = "rms"
          /\ portMessages[n + 1].type = "audio"
          /\ portMessages[n + 2].type = "audio"
    /\ \E i, j \in 1..Len(inputSamples) : inputSamples[i] # inputSamples[j]

\* The reply lets the try block run to its return: an ok status, a body that
\* parses as JSON, no error field.
ReplySucceeds(r) == r.status \in 200..299 /\ r.body = "json" /\ r.error = ""

\* The step is a failed attempt of the call in progress: fetch rejected, or
\* the reply made the try block throw.
AttemptFails ==
    \/ thought.phase = "fetching" /\ thought'.phase # "replied"
    \/ thought.phase = "replied" /\ ~ReplySucceeds(thought.response)

\* The step returns from the call in progress: one more settled call, with
\* the requests made so far, and no call in progress.
CallReturns ==
    /\ thought' = NoThought
    /\ Len(thoughtLog') = Len(thoughtLog) + 1
    /\ thoughtLog'[Len(thoughtLog')].fetches = thought.fetches

\* What C29 says of one step of a call
RetryStep ==
    /\ (thought.phase = "replied" /\ ReplySucceeds(thought.response))
       => /\ CallReturns
          /\ thoughtLog'[Len(thoughtLog')].result
                \in {thought.response.response, "DATA_CORRUPTION_EMPTY_RESPONSE"}
    /\ (AttemptFails /\ thought.failures + 1 < 3)
       => /\ thought'.phase = "backoff"
          /\ thought'.failures = thought.failures + 1
          /\ thought'.fetches = thought.fetches
          /\ thoughtLog' = thoughtLog
    /\ (AttemptFails /\ thought.failures + 1 >= 3)
       => /\ CallReturns
          /\ thoughtLog'[Len(thoughtLog')].result
                = "CIRCUIT_BREAKER_ACTIVATED: UNABLE_TO_PROCESS_THOUGHT_PATTERN"
    /\ (thought.phase # "idle" /\ thought'.fetches > thought.fetches)
       => /\ thought.phase = "backoff"
          /\ thought.delayMs = (2 ^ thought.failures) * 1000
          /\ thought'.fetches = thought.fetches + 1
          /\ thought'.phase = "fetching"
    /\ thought.phase = "idle"
       => /\ thoughtLog' = thoughtLog
          /\ (thought'.phase = "fetching"
              => thought'.fetches = 1 /\ thought'.failures = 0)
    /\ SubSeq(thoughtLog', 1, Len(thoughtLog)) = thoughtLog

\* C29: within one executeDeepThought call, the first successful reply makes
\* the call return with no further request; a failed attempt with attempts
\* remaining starts a wait of 2^failures seconds, and only the end of that
\* wait issues the next request; the final failure returns at once; and a
\* call that has returned issues no request and its record never changes.
C29_RetryProtocol ==
    /\ [](thought.phase = "backoff"
           => /\ thought.failures \in 1..2
              /\ thought.delayMs = (2 ^ thought.failures) * 1000)
    /\ [][RetryStep]_vars

\* C29 witness: a first call returned at its third failure, and the second
\* call is waiting 4 seconds after its second failure.
C29_Witness ==
    /\ Len(thoughtLog) = 1
    /\ thoughtLog[1].failures = 3
    /\ thoughtLog[1].fetches = 3
    /\ thoughtLog[1].result = CircuitBreakerActivated
    /\ thought.phase = "backoff"
    /\ thought.failures = 2
    /\ thought.fetches = 2
    /\ thought.delayMs = 4000

\* C30: a request the backend handled successfully, on a cache hit as on a
\* cache miss answered by the model, makes executeDeepThought return the
\* response text on that attempt: no failure is counted, no retry follows and
\* no sentinel is returned.
C30_BackendSuccessIsReturned ==
    [][(thought.phase = "replied" /\ thought.response.status = 200
                                  /\ thought.cacheLookups > 0)
       => (/\ CallReturns
           /\ thoughtLog'[Len(thoughtLog')].failures = thought.failures
           /\ ~(thoughtLog'[Len(thoughtLog')].result
                  \in {"CIRCUIT_BREAKER_ACTIVATED: UNABLE_TO_PROCESS_THOUGHT_PATTERN",
                       "DATA_CORRUPTION_EMPTY_RESPONSE", "SYSTEM_FAILURE"})
           /\ (thought.response.body = "json"
               => thoughtLog'[Len(thoughtLog')].result = thought.response.response))
      ]_vars

\* C31: confidenceScore is 1.0 - 0.15 x hesitationCount - P + 0.002 x
\* logicDensity + 0.002 x aggressionIndex clamped to [0,1] (in thousandths),
\* where P is 0.2 only if the utterance has at least one word and the
\* intensity is below 0.05, and 0 for an empty or whitespace-only utterance.
C31_ConfidenceFormula ==
    \A n \in 1..Len(coreOutput) :
        LET text == coreInput[1]
            intensity == coreInput[2]
            hesitationCount == coreInput[3]
            P == IF WordCount(text) > 0 /\ intensity < 5 THEN 200 ELSE 0
            raw == 1000 - 150 * hesitationCount - P
                   + 2 * coreOutput[n].logicDensity.v
                   + 2 * coreOutput[n].aggressionIndex.v
        IN coreOutput[n].confidenceScore
             = Num(IF raw < 0 THEN 0 ELSE IF raw > 1000 THEN 1000 ELSE raw)

\* The whitespace-delimited tokens of s, lower-cased and reduced to letters
Tokens(s) ==
    LET pieces == SelectSeq(SplitOnWhitespace(toLowerCase(s)), LAMBDA w : w # "")
    IN [k \in 1..Len(pieces) |-> KeepLowerCaseLetters(pieces[k])]

RECURSIVE Valence(_, _)
\* The valence accumulator from token k on, in tenths: minus each aggression
\* weight, plus each conciliatory weight hit
Valence(tokens, k) ==
    IF k > Len(tokens) THEN 0
    ELSE (IF tokens[k] \in DOMAIN AGGRESSION_LEXICON
          THEN -AGGRESSION_LEXICON[tokens[k]] ELSE 0)
         + (IF tokens[k] \in DOMAIN CONCILIATORY_LEXICON
            THEN CONCILIATORY_LEXICON[tokens[k]] ELSE 0)
         + Valence(tokens, k + 1)

\* C32: emotionalResonanceIndex is the valence accumulator, halved if the
\* utterance has fewer than 3 tokens, times (1 + 2 x intensity), replaced by
\* -intensity if its absolute value is below 0.1 while the intensity is above
\* 0.2, and clamped to [-1,1] (in 1/2000).
C32_ResonanceFormula ==
    \A n \in 1..Len(coreOutput) :
        LET tokens == Tokens(coreInput[1])
            intensity == coreInput[2]
            scaled == Valence(tokens, 1) * (IF Len(tokens) < 3 THEN 1 ELSE 2)
                      * (100 + 2 * intensity)
            resonance == IF scaled < 200 /\ scaled > -200 /\ intensity > 20
                         THEN -20 * intensity ELSE scaled
        IN coreOutput[n].emotionalResonanceIndex
             = Num(IF resonance < -2000 THEN -2000
                   ELSE IF resonance > 2000 THEN 2000 ELSE resonance)

\* C33: for every utterance and every elapsedSeconds value, hesitationMarkers
\* is the number of whitespace-delimited tokens whose lower-cased, letter-only
\* form is one of the filler lexicon entries; the multi-word entries, which no
\* token can equal, contribute nothing.
C33_HesitationsCountFillerTokens ==
    \A n \in 1..Len(coreOutput) :
        LET tokens == Tokens(coreInput[1])
            fillers == {"um", "uh", "like", "actually", "basically", "sort of", "mean",
                        "you know"}
        IN /\ coreOutput[n].hesitationCount
                = Cardinality({k \in 1..Len(tokens) : tokens[k] \in fillers})
           /\ coreOutput[n].hesitationCount
                = Cardinality({k \in 1..Len(tokens) :
                                  tokens[k] \in fillers \ {"sort of", "you know"}})

\* a and b differ at most in the case of their letters
SameUpToCase(a, b) ==
    /\ Len(a) = Len(b)
    /\ \A i \in 1..Len(a) :
          \/ SubSeq(a, i, i) = SubSeq(b, i, i)
          \/ \E k \in 1..26 :
                {SubSeq(a, i, i), SubSeq(b, i, i)}
                  = {SubSeq("ABCDEFGHIJKLMNOPQRSTUVWXYZ", k, k),
                     SubSeq("abcdefghijklmnopqrstuvwxyz", k, k)}

\* C34: the registry stays the one loaded, and any two calls for the same
\* scenario whose utterances differ at most in letter case returned the same
\* string, whatever calls were made before each of them.
C34_OfflineResponderDeterministic ==
    /\ Registry(scenarioRegistry) = SCENARIO_DB
    /\ \A n, m \in 1..Len(simLog) :
          (/\ simLog[n].scenarioId = simLog[m].scenarioId
           /\ SameUpToCase(simLog[n].userPayload, simLog[m].userPayload))
          => simLog[n].result = simLog[m].result

\* C34 witness: the same scenario was asked with 'Stock' and then with
\* 'STOCK', and both calls were answered by the same rule.
C34_Witness ==
    /\ Len(simLog) = 2
    /\ simLog[1].scenarioId = "SCN-BETA-04"
    /\ simLog[2].scenarioId = "SCN-BETA-04"
    /\ simLog[1].userPayload = "Stock"
    /\ simLog[2].userPayload = "STOCK"
    /\ simLog[1].result = simLog[2].result
    /\ simLog[1].result # SimulationMiss

\* C35: in the dialogue log OPERATOR and SYNTHETIC_AGENT vectors alternate
\* strictly, starting with OPERATOR, so that each SYNTHETIC_AGENT vector
\* directly follows an OPERATOR vector -- also when the scenario was changed
\* or the simulation reset while a response was pending.
C35_LogAlternates ==
    \A i \in 1..Len(transmissionVectors) :
        transmissionVectors[i].origin
          = (IF i % 2 = 1 THEN "OPERATOR" ELSE "SYNTHETIC_AGENT")

\* The transmits whose response is still due
PendingTransmits ==
    BagCardinality(pendingResponses)
      - CopiesIn([kind |-> "analysis", scenario |-> 0, input |-> ""], pendingResponses)

\* What C36 says of one step
TransmitStep ==
    /\ PendingTransmits' > PendingTransmits
       => /\ cognitiveState # "SYNAPTIC_PROCESSING"
          /\ cognitiveState' = "SYNAPTIC_PROCESSING"
          /\ PendingTransmits' = 1
    /\ cognitiveState = "SYNAPTIC_PROCESSING"
       => \A input \in Inputs : ~HandleManualTransmit(input)
    /\ PendingTransmits' < PendingTransmits
       => /\ Len(transmissionVectors') = Len(transmissionVectors) + 1
          /\ transmissionVectors'[Len(transmissionVectors')].origin = "SYNTHETIC_AGENT"
          /\ SubSeq(transmissionVectors', 1, Len(transmissionVectors))
               = transmissionVectors
          /\ cognitiveState' = "NEURAL_IDLE"
          /\ PendingTransmits' = PendingTransmits - 1

\* C36: an accepted transmit sets cognitiveState to THINKING; while it is
\* THINKING no transmit is accepted, so at most one request is outstanding;
\* and, timers firing and remote calls completing, the outstanding request is
\* eventually answered by exactly one SYNTHETIC_AGENT vector, with which
\* cognitiveState returns to IDLE.
C36_OneRequestAnsweredOnce ==
    /\ [](PendingTransmits <= 1)
    /\ [](PendingTransmits = 1 => cognitiveState = "SYNAPTIC_PROCESSING")
    /\ [][TransmitStep]_vars
    /\ (PendingTransmits = 1)
         ~> (PendingTransmits = 0 /\ cognitiveState = "NEURAL_IDLE")

\* C36 witness: the second transmit is outstanding, the first one has been
\* answered.
C36_Witness ==
    /\ Len(transmissionVectors) = 3
    /\ transmissionVectors[1].origin = "OPERATOR"
    /\ transmissionVectors[2].origin = "SYNTHETIC_AGENT"
    /\ transmissionVectors[3].origin = "OPERATOR"
    /\ PendingTransmits = 1
    /\ cognitiveState = "SYNAPTIC_PROCESSING"

\* C37: once every session of the link has been severed, nothing is delivered
\* any more: no transcript update (which would append a metric), no amplitude
\* event and no outbound payload (a captured block), and no playback is
\* scheduled.
C37_SeveredSessionSilent ==
    [][(\A s \in BagToSet(sessions) : s.severed)
       => /\ appendedMetrics' = appendedMetrics
          /\ entropyMetrics' = entropyMetrics
          /\ lastBlock' = lastBlock
          /\ scheduled' = scheduled]_vars

\* C38: at most one retry timer is pending at any time, and a pending retry
\* timer is the one held in retryTimeoutRef, within reach of the clearTimeout
\* of severNeuralLink and initiateNeuralLink.
C38_OneCancellableRetryTimer ==
    /\ PendingTimers <= 1
    /\ orphanTimers = EmptyBag

\* C39: computeLevenshteinDeviation is symmetric: for all strings a and b,
\* computeLevenshteinDeviation(a, b) = computeLevenshteinDeviation(b, a).
C39_Symmetric ==
    LevDone(5) => coreOutput[5] = coreOutput[2]

\* Both orders were computed for two different strings of different lengths
\* whose distance is neither 0 nor the difference of the lengths only.
C39_Witness ==
    /\ LevDone(5)
    /\ coreInput[1] = "kitten"
    /\ coreInput[2] = "sitting"
    /\ coreOutput[2] = 3
    /\ coreOutput[5] = 3

\* The six fields resetSimulation sets and the four it leaves alone.
ResetFields ==
    <<entropyMetrics, transmissionVectors, cognitiveState, currentSpectralFlux,
      viewMode, analysisReport>>
KeptFields == <<activeScenario, isAcousticCaptureActive, selectedVoice, networkLatency>>

\* A step of the store is judged by the fields it changes: a reset is a step
\* that changes some of the six fields and leaves all six at their reset
\* values; an add is a step that lengthens the record of the calls made.
C40_Step ==
    /\ (/\ ResetFields' # ResetFields
        /\ ResetFields' = <<<<>>, <<>>, "NEURAL_IDLE", 0, "ACTIVE_SIMULATION", FALSE>>)
       => UNCHANGED KeptFields
    /\ Len(appendedMetrics') > Len(appendedMetrics)
       => /\ entropyMetrics' = addEntropyMetric(entropyMetrics, Metric)
          /\ UNCHANGED <<transmissionVectors, cognitiveState, currentSpectralFlux,
                         viewMode, analysisReport, KeptFields>>
    /\ Len(loggedVectors') > Len(loggedVectors)
       => /\ \E vector \in StoreVectors :
                 transmissionVectors' = addTransmissionVector(transmissionVectors, vector)
          /\ UNCHANGED <<entropyMetrics, cognitiveState, currentSpectralFlux,
                         viewMode, analysisReport, KeptFields>>

\* C40: resetSimulation changes only entropyMetrics, transmissionVectors,
\* cognitiveState, currentSpectralFlux, viewMode and analysisReport and leaves
\* activeScenario, isAcousticCaptureActive, selectedVoice and networkLatency
\* unchanged; addEntropyMetric changes only entropyMetrics and
\* addTransmissionVector changes only transmissionVectors.
C40_StoreFrameConditions == [][C40_Step]_vars

\* Both adds were applied and every field, kept or reset, is off its initial
\* value: the state in which a reset has the most to change and to keep.
C40_Witness ==
    /\ Len(appendedMetrics) > 0
    /\ Len(loggedVectors) > 1
    /\ entropyMetrics # <<>>
    /\ transmissionVectors = loggedVectors
    /\ cognitiveState = "SYNAPTIC_PROCESSING"
    /\ currentSpectralFlux = 5
    /\ viewMode = "POST_MORTEM_DEBRIEF"
    /\ analysisReport
    /\ KeptFields = <<2, FALSE, "Fenrir", 42>>

====
